---- MODULE Spec2Model ----
(***************************************************************************)
(* The ETL agent of src/agent/etl_agent.py as a state machine: the graph   *)
(* built by ETLAgent._build_graph, its eight nodes and its conditional     *)
(* edges, together with the engines the nodes call (transform_data and     *)
(* validate_data of tools/transform_tool.py, load_to_database and          *)
(* verify_load of tools/load_tool.py). The extractor, the LLM and the      *)
(* database are the environment: what they return is chosen with \E.       *)
(*                                                                         *)
(* Spec and FairSpec run the agent. PlanSpec, CleaningSpec and DerivingSpec *)
(* run TransformationExecutor.execute_plan on its own, step by step, on    *)
(* any table and plan; RuleSpec runs validate_data, rule by rule.          *)
(***************************************************************************)
EXTENDS Integers, Sequences, FiniteSets, TLC

\* ------------------------------------------------------------------ bounds
\* Largest number of rows of an extracted table.
MaxRows == 2
\* reasoning_log entries kept by the model (later appends are dropped).
MaxLog == 8
\* The history counters plan_entries and retry_entries stop counting here.
MaxVisits == 4
\* Longest plan and longest rule list handed to the engine called on its own.
MaxPlanLen == 2
MaxRules == 2

\* ------------------------------------------------------- program constants
\* `retry_count >= 2` / `retry_count < 2` in _error_node, _check_validation
\* and _check_recovery.
MaxRetries == 2
\* The default rule list of _transform_node: [{"type": "row_count", "min": 1}].
DefaultMinRows == 1

\* -------------------------------------------------------------- data model
\* A cell of a DataFrame: a null (NaN / None) or the number val / den in lowest
\* terms (a float column holds the means and the ratios the engine computes).
NULL == [isnull |-> TRUE, val |-> 0, den |-> 1]
Num(n) == [isnull |-> FALSE, val |-> n, den |-> 1]
Cells == {NULL, Num(-1), Num(1)}

Abs(n) == IF n < 0 THEN -n ELSE n

RECURSIVE GCD(_, _)
GCD(a, b) == IF b = 0 THEN a ELSE GCD(b, a % b)

\* The number n / d (d # 0) as a cell.
Frac(n, d) ==
  LET g == GCD(Abs(n), Abs(d))
  IN [isnull |-> FALSE, val |-> ((IF d < 0 THEN -n ELSE n) \div g), den |-> (Abs(d) \div g)]

\* a < b and a <= b on non-null cells.
Less(a, b) == a.val * b.den < b.val * a.den
LessEq(a, b) == a.val * b.den <= b.val * a.den

\* state['raw_data'] / state['transformed_data']: None until a node sets it,
\* then a DataFrame: its column names and its rows (column name -> cell).
None == [isNone |-> TRUE, cols |-> <<>>, rows |-> <<>>]
DataFrame(cols, rows) == [isNone |-> FALSE, cols |-> cols, rows |-> rows]
ColSet(df) == {df.cols[i] : i \in 1..Len(df.cols)}
NRows(df) == Len(df.rows)

\* The column every extracted table of the model has, and a name no table has.
Col == "fare_amount"
NoCol == "no_such_column"
\* The second column of the tables handed to the engine on its own.
Dist == "trip_distance"

RECURSIVE SeqsUpTo(_, _)
SeqsUpTo(S, n) ==
  IF n = 0 THEN {<<>>}
  ELSE LET shorter == SeqsUpTo(S, n - 1)
       IN shorter \cup {Append(s, x) : s \in {t \in shorter : Len(t) = n - 1}, x \in S}

\* The tables the extractor can return: one column, at most MaxRows rows.
ExtractedTables ==
  {DataFrame(<<Col>>, rows) : rows \in SeqsUpTo({[c \in {Col} |-> v] : v \in Cells}, MaxRows)}

\* isna().sum() counting the cells that are not null.
NullCount_notna(df, column) == Len(SelectSeq(df.rows, LAMBDA r : ~r[column].isnull))

\* df[column].isna().sum(), (df[column] < 0).sum() and the out-of-range count
\* of validate_data; a null compares False with every number.
NullCount(df, column) == Len(SelectSeq(df.rows, LAMBDA r : r[column].isnull))
NegativeCount(df, column) ==
  Len(SelectSeq(df.rows, LAMBDA r : ~r[column].isnull /\ r[column].val < 0))
OutOfRangeCount(df, column, lo, hi) ==
  Len(SelectSeq(df.rows, LAMBDA r : ~r[column].isnull
                                     /\ (Less(r[column], Num(lo)) \/ Less(Num(hi), r[column]))))

\* The distinct non-null values of a column, as a sequence in row order and as
\* the number of rows holding a given value.
Values(df, column) ==
  SelectSeq([i \in 1..NRows(df) |-> df.rows[i][column]], LAMBDA c : ~c.isnull)
Occurrences(v, x) == Cardinality({i \in 1..Len(v) : v[i] = x})

\* ------------------------------------------------- transformation engine
\* The engine works on numeric (float64) columns. Two builds of the program
\* differ in what `self.df[column].fillna(..., inplace=True)` does, and the
\* code pins no pandas version: without copy-on-write the selection is a view
\* and the fill reaches self.df and fillna accepts method='ffill'; with
\* copy-on-write (pandas 3) the fill lands on a temporary and fillna has no
\* `method` keyword. copy_on_write says which build runs.
VARIABLE copy_on_write

\* A step of a plan, as the JSON object the planner wrote. hasAction is
\* whether the object has an "action" key at all. A key the object does not
\* have reads as None through step.get: "" for a text, NULL for the fill
\* value, no list for valid_values, <<>> for subset.
NoList == [given |-> FALSE, values |-> {}]
ListOf(values) == [given |-> TRUE, values |-> values]
Step(a, c, s) ==
  [hasAction |-> TRUE, action |-> a, column |-> c, strategy |-> s, value |-> NULL,
   valid_values |-> NoList, new_name |-> "", new_column |-> "", expression |-> "",
   case |-> "", subset |-> <<>>, condition |-> ""]
NoActionStep == [Step("", Col, "") EXCEPT !.hasAction = FALSE]
FillValue(c, v) == [Step("fill_null", c, "value") EXCEPT !.value = v]
RemoveInvalid(c, values) == [Step("remove_invalid", c, "") EXCEPT !.valid_values = ListOf(values)]
RenameColumn(c, n) == [Step("rename_column", c, "") EXCEPT !.new_name = n]
AddDerivedColumn(n, e) ==
  [Step("add_derived_column", "", "") EXCEPT !.new_column = n, !.expression = e]
StandardizeText(c, case) == [Step("standardize_text", c, "") EXCEPT !.case = case]
RemoveDuplicates(subset) == [Step("remove_duplicates", "", "") EXCEPT !.subset = subset]
FilterRows(condition) == [Step("filter_rows", "", "") EXCEPT !.condition = condition]

\* What a method of the executor does to self.df: it returns its details text
\* (reported is the count the text carries) or it raises (error is the
\* exception's type and what str(e) names). evaluated is the text the method
\* handed to eval, "" when it called no eval.
Returned(df, n) ==
  [ok |-> TRUE, df |-> df, reported |-> n, error |-> <<>>, evaluated |-> ""]
\* A method that raises after it emptied self.df.
Raised_cleared(df, type, arg) ==
  [ok |-> FALSE, df |-> [df EXCEPT !.rows = <<>>], reported |-> 0, error |-> <<type, arg>>,
   evaluated |-> ""]

Raised(df, type, arg) ==
  [ok |-> FALSE, df |-> df, reported |-> 0, error |-> <<type, arg>>, evaluated |-> ""]

\* self.df[column] on a column the table does not have.
KeyError(df, column) == Raised(df, "KeyError", column)

\* TransformationExecutor._convert_datetime on a numeric column: to_datetime
\* reads each number as a timestamp and makes no new null.
convert_datetime(df, column) ==
  IF column \notin ColSet(df) THEN KeyError(df, column) ELSE Returned(df, 0)

\* df[column].mean(): NaN (a null) when the column has no value.
RECURSIVE SumCells(_)
SumCells(v) ==
  IF v = <<>> THEN Num(0)
  ELSE LET rest == SumCells(Tail(v))
       IN Frac(Head(v).val * rest.den + rest.val * Head(v).den, Head(v).den * rest.den)
Mean(df, column) ==
  LET v == Values(df, column)
  IN IF v = <<>> THEN NULL ELSE Frac(SumCells(v).val, SumCells(v).den * Len(v))

\* The k-th smallest of the values v.
Kth(v, k) ==
  CHOOSE x \in {v[i] : i \in 1..Len(v)} :
    /\ Cardinality({i \in 1..Len(v) : Less(v[i], x)}) < k
    /\ k <= Cardinality({i \in 1..Len(v) : LessEq(v[i], x)})

\* df[column].median(): the middle value, or the mean of the two middle ones.
Median(df, column) ==
  LET v == Values(df, column)
      m == Len(v)
      lo == Kth(v, m \div 2)
      hi == Kth(v, m \div 2 + 1)
  IN IF m = 0 THEN NULL
     ELSE IF m % 2 = 1 THEN hi
     ELSE Frac(lo.val * hi.den + hi.val * lo.den, 2 * lo.den * hi.den)

\* df[column].mode()[0]: the smallest of the most frequent values.
Mode(df, column) ==
  LET v == Values(df, column)
      most == {x \in {v[i] : i \in 1..Len(v)} :
                 \A j \in 1..Len(v) : Occurrences(v, v[j]) <= Occurrences(v, x)}
  IN CHOOSE x \in most : \A y \in most : LessEq(x, y)

\* A fill that writes v over the whole column.
Filled_all(df, column, v) ==
  [df EXCEPT !.rows = [i \in 1..NRows(df) |-> [df.rows[i] EXCEPT ![column] = v]]]

\* fillna(v) on the column: every null cell of the column becomes v.
Filled(df, column, v) ==
  [df EXCEPT !.rows = [i \in 1..NRows(df) |->
     IF df.rows[i][column].isnull THEN [df.rows[i] EXCEPT ![column] = v] ELSE df.rows[i]]]

\* fillna(method='ffill'): a null cell takes the last value above it, if any.
ForwardFilled(df, column) ==
  [df EXCEPT !.rows = [i \in 1..NRows(df) |->
     LET above == {j \in 1..i : ~df.rows[j][column].isnull}
     IN IF above = {} THEN df.rows[i]
        ELSE [df.rows[i] EXCEPT ![column] =
                df.rows[CHOOSE j \in above : \A k \in above : k <= j][column]]]]

\* TransformationExecutor._fill_null. null_count is taken first. "drop" rebinds
\* self.df; every other known strategy fills in place on the selection, which
\* reaches self.df only without copy-on-write. A strategy the method does not
\* know falls through every branch and returns its "Filled ..." text with the
\* table untouched.
fill_null(df, column, strategy, value) ==
  IF column \notin ColSet(df) THEN KeyError(df, column)
  ELSE LET null_count == NullCount(df, column)
           inplace(filled) == Returned(IF copy_on_write THEN df ELSE filled, null_count)
       IN IF strategy = "value"
            THEN IF value.isnull THEN Raised(df, "ValueError", "value")
                 ELSE inplace(Filled(df, column, value))
          ELSE IF strategy = "mean" THEN inplace(Filled(df, column, Mean(df, column)))
          ELSE IF strategy = "median" THEN inplace(Filled(df, column, Median(df, column)))
          ELSE IF strategy = "mode"
            THEN IF Values(df, column) = <<>> THEN Raised(df, "KeyError", "0")
                 ELSE inplace(Filled(df, column, Mode(df, column)))
          ELSE IF strategy = "forward_fill"
            THEN IF copy_on_write THEN Raised(df, "TypeError", "method")
                 ELSE Returned(ForwardFilled(df, column), null_count)
          ELSE IF strategy = "drop"
            THEN Returned([df EXCEPT !.rows = SelectSeq(df.rows, LAMBDA r : ~r[column].isnull)],
                          null_count)
          ELSE Returned(df, null_count)

\* _remove_negative keeping df[~(df[column] < 0)], the rows of null cells too.
remove_negative_keeps_nulls(df, column) ==
  IF column \notin ColSet(df) THEN KeyError(df, column)
  ELSE Returned([df EXCEPT !.rows =
                   SelectSeq(df.rows, LAMBDA r : r[column].isnull \/ r[column].val >= 0)],
                NegativeCount(df, column))

\* TransformationExecutor._remove_negative: the count is (df[column] < 0).sum(),
\* the table kept is df[df[column] >= 0]; a null compares False with 0, so its
\* row is not kept and is not counted.
remove_negative(df, column) ==
  IF column \notin ColSet(df) THEN KeyError(df, column)
  ELSE Returned([df EXCEPT !.rows =
                   SelectSeq(df.rows, LAMBDA r : ~r[column].isnull /\ r[column].val >= 0)],
                NegativeCount(df, column))

\* TransformationExecutor._remove_invalid: isin(None) raises TypeError.
remove_invalid(df, column, valid_values) ==
  IF column \notin ColSet(df) THEN KeyError(df, column)
  ELSE IF ~valid_values.given THEN Raised(df, "TypeError", "valid_values")
  ELSE LET kept == SelectSeq(df.rows, LAMBDA r : r[column] \in valid_values.values)
       IN Returned([df EXCEPT !.rows = kept], NRows(df) - Len(kept))

\* TransformationExecutor._convert_numeric: a numeric column converts to itself.
convert_numeric(df, column) ==
  IF column \notin ColSet(df) THEN KeyError(df, column) ELSE Returned(df, 0)

\* TransformationExecutor._rename_column: df.rename(columns={old: new}) renames
\* the column if the table has it and is silent if it has not. (new_name is
\* not the name of another column of the table in any plan of the model.)
rename_column(df, old_name, new_name) ==
  LET name(c) == IF c = old_name THEN new_name ELSE c
      back(c) == IF c = new_name THEN old_name ELSE c
  IN IF old_name \notin ColSet(df) THEN Returned(df, 0)
     ELSE Returned([df EXCEPT
            !.cols = [i \in 1..Len(df.cols) |-> name(df.cols[i])],
            !.rows = [i \in 1..NRows(df) |->
                        [c \in {name(d) : d \in ColSet(df)} |-> df.rows[i][back(c)]]]], 0)

\* TransformationExecutor._drop_column: df.drop(columns=[column]) raises
\* KeyError on a column the table does not have.
drop_column(df, column) ==
  IF column \notin ColSet(df) THEN KeyError(df, column)
  ELSE Returned([df EXCEPT
         !.cols = SelectSeq(df.cols, LAMBDA c : c # column),
         !.rows = [i \in 1..NRows(df) |-> [c \in ColSet(df) \ {column} |-> df.rows[i][c]]]], 0)

\* The keys of safe_expressions in _add_derived_column and the text each maps
\* to; the text is what the method hands to eval.
DerivedColumns == {"trip_duration_minutes", "fare_per_mile", "tip_percentage"}
SafeExpression(new_column) ==
  IF new_column = "trip_duration_minutes"
    THEN "(self.df['tpep_dropoff_datetime'] - self.df['tpep_pickup_datetime']).dt.total_seconds() / 60"
  ELSE IF new_column = "fare_per_mile"
    THEN "self.df['fare_amount'] / self.df['trip_distance'].replace(0, np.nan)"
  ELSE "(self.df['tip_amount'] / self.df['fare_amount'].replace(0, np.nan)) * 100"

\* The columns each safe expression reads, in the order it reads them.
ExpressionReads(new_column) ==
  IF new_column = "trip_duration_minutes"
    THEN <<"tpep_dropoff_datetime", "tpep_pickup_datetime">>
  ELSE IF new_column = "fare_per_mile" THEN <<"fare_amount", "trip_distance">>
  ELSE <<"tip_amount", "fare_amount">>

\* a / b.replace(0, np.nan) * factor on two cells: a null when either is null
\* or b is 0.
Ratio(a, b, factor) ==
  IF a.isnull \/ b.isnull \/ b.val = 0 THEN NULL
  ELSE Frac(a.val * b.den * factor, a.den * b.val)

\* self.df[name] = cells: the column is replaced, or added as the last one.
WithColumn(df, name, cells) ==
  [df EXCEPT
     !.cols = IF name \in ColSet(df) THEN df.cols ELSE Append(df.cols, name),
     !.rows = [i \in 1..NRows(df) |->
                 [c \in ColSet(df) \cup {name} |-> IF c = name THEN cells[i] ELSE df.rows[i][c]]]]

\* _add_derived_column handing the step's own `expression` text to eval.
add_derived_column_eval(df, new_column, expression) ==
  IF new_column \notin {"trip_duration_minutes", "fare_per_mile", "tip_percentage"}
  THEN [ok |-> FALSE, df |-> df, reported |-> 0, error |-> <<"ValueError", new_column>>,
        evaluated |-> ""]
  ELSE [ok |-> TRUE, df |-> df, reported |-> 0, error |-> <<>>, evaluated |-> expression]

\* TransformationExecutor._add_derived_column: new_column picks the text to
\* evaluate out of safe_expressions and `expression` is never read. The
\* evaluation raises KeyError on the first column the table does not have, and
\* AttributeError on `.dt` of a difference of numeric columns.
add_derived_column(df, new_column, expression) ==
  IF new_column \notin DerivedColumns
  THEN Raised(df, "ValueError", new_column)
  ELSE LET reads == ExpressionReads(new_column)
           missing == SelectSeq(reads, LAMBDA c : c \notin ColSet(df))
           factor == IF new_column = "tip_percentage" THEN 100 ELSE 1
           cells == [i \in 1..NRows(df) |->
                       Ratio(df.rows[i][reads[1]], df.rows[i][reads[2]], factor)]
           outcome == IF missing # <<>> THEN KeyError(df, Head(missing))
                      ELSE IF new_column = "trip_duration_minutes"
                        THEN Raised(df, "AttributeError", "dt")
                      ELSE Returned(WithColumn(df, new_column, cells), 0)
       IN [outcome EXCEPT !.evaluated = SafeExpression(new_column)]

\* TransformationExecutor._standardize_text: `.str` on a numeric column raises
\* AttributeError; a case that is none of the three touches nothing, not even
\* the column.
standardize_text(df, column, case) ==
  IF case \notin {"lower", "upper", "title"} THEN Returned(df, 0)
  ELSE IF column \notin ColSet(df) THEN KeyError(df, column)
  ELSE Raised(df, "AttributeError", "str")

\* drop_duplicates(subset=subset, keep='last').
remove_duplicates_keep_last(df, subset) ==
  LET keys == IF subset = <<>> THEN ColSet(df) ELSE {subset[i] : i \in 1..Len(subset)}
      last(i) == \A j \in (i + 1)..NRows(df) : \E c \in keys : df.rows[j][c] # df.rows[i][c]
      kept == {i \in 1..NRows(df) : last(i)}
      nth(k) == CHOOSE i \in kept : Cardinality({j \in kept : j <= i}) = k
  IN [ok |-> TRUE, reported |-> NRows(df) - Cardinality(kept), error |-> <<>>, evaluated |-> "",
      df |-> [df EXCEPT !.rows = [k \in 1..Cardinality(kept) |-> df.rows[nth(k)]]]]

\* TransformationExecutor._remove_duplicates: drop_duplicates(subset=subset)
\* keeps the first row of each group of rows equal on the subset (on every
\* column when subset is None; nulls compare equal); a subset naming a missing
\* column raises KeyError; a table with no column is returned as it is.
remove_duplicates(df, subset) ==
  LET keys == IF subset = <<>> THEN ColSet(df) ELSE {subset[i] : i \in 1..Len(subset)}
      missing == SelectSeq(subset, LAMBDA c : c \notin ColSet(df))
      first(i) == \A j \in 1..(i - 1) : \E c \in keys : df.rows[j][c] # df.rows[i][c]
      kept == {i \in 1..NRows(df) : first(i)}
      \* the rows of kept, in their order
      nth(k) == CHOOSE i \in kept : Cardinality({j \in kept : j <= i}) = k
  IN IF missing # <<>> THEN KeyError(df, Head(missing))
     ELSE IF ColSet(df) = {} THEN Returned(df, 0)
     ELSE Returned([df EXCEPT !.rows = [k \in 1..Cardinality(kept) |-> df.rows[nth(k)]]],
                   NRows(df) - Cardinality(kept))

\* The conditions _filter_rows knows and the column each one tests for > 0.
FilterConditions == {"valid_trip_distance", "valid_fare", "valid_passengers"}
FilterColumn(condition) ==
  IF condition = "valid_trip_distance" THEN "trip_distance"
  ELSE IF condition = "valid_fare" THEN "fare_amount"
  ELSE "passenger_count"

\* TransformationExecutor._filter_rows.
filter_rows(df, condition) ==
  IF condition \notin FilterConditions THEN Raised(df, "ValueError", condition)
  ELSE IF FilterColumn(condition) \notin ColSet(df) THEN KeyError(df, FilterColumn(condition))
  ELSE LET kept == SelectSeq(df.rows, LAMBDA r : ~r[FilterColumn(condition)].isnull
                                                   /\ r[FilterColumn(condition)].val > 0)
       IN Returned([df EXCEPT !.rows = kept], NRows(df) - Len(kept))

\* TransformationExecutor._execute_step: dispatch on the action; an unknown
\* action raises ValueError.
execute_step(df, step) ==
  IF step.action = "convert_datetime" THEN convert_datetime(df, step.column)
  ELSE IF step.action = "fill_null"
    THEN fill_null(df, step.column, step.strategy, step.value)
  ELSE IF step.action = "remove_negative" THEN remove_negative(df, step.column)
  ELSE IF step.action = "remove_invalid"
    THEN remove_invalid(df, step.column, step.valid_values)
  ELSE IF step.action = "convert_numeric" THEN convert_numeric(df, step.column)
  ELSE IF step.action = "rename_column" THEN rename_column(df, step.column, step.new_name)
  ELSE IF step.action = "drop_column" THEN drop_column(df, step.column)
  ELSE IF step.action = "add_derived_column"
    THEN add_derived_column(df, step.new_column, step.expression)
  ELSE IF step.action = "standardize_text" THEN standardize_text(df, step.column, step.case)
  ELSE IF step.action = "remove_duplicates" THEN remove_duplicates(df, step.subset)
  ELSE IF step.action = "filter_rows" THEN filter_rows(df, step.condition)
  ELSE Raised(df, "ValueError", step.action)

\* execute_plan with a handler that logs the step as done.
LogEntry_success(i, step, r) ==
  [step |-> i, action |-> step.action, column |-> step.column, status |-> "success",
   details |-> r.reported, error |-> r.error]

\* execute_plan logging enumerate's own index, counted from 0.
LogEntry_zero_based(i, step, r) ==
  [step |-> i - 1, action |-> step.action, column |-> step.column,
   status |-> IF r.ok THEN "success" ELSE "failed",
   details |-> r.reported, error |-> r.error]

\* The entry execute_plan appends to transformation_log for the i-th step (i
\* counted from 1) once _execute_step returned or raised.
LogEntry(i, step, r) ==
  [step |-> i, action |-> step.action, column |-> step.column,
   status |-> IF r.ok THEN "success" ELSE "failed",
   details |-> r.reported, error |-> r.error]

\* TransformationExecutor.execute_plan: every step is tried, one log entry
\* per step, a failed step leaves self.df as it was.
RECURSIVE execute_from(_, _, _, _)
execute_from(df, plan, i, log) ==
  IF i > Len(plan) THEN [transformed_data |-> df, transformation_log |-> log,
                         final_row_count |-> NRows(df)]
  ELSE LET r == execute_step(df, plan[i])
       IN execute_from(r.df, plan, i + 1, Append(log, LogEntry(i, plan[i], r)))

execute_plan(df, plan) == execute_from(df, plan, 1, <<>>)

\* transform_data: TransformationExecutor(df) copies df first, which raises
\* AttributeError when df is None; nothing in transform_data catches it.
transform_raises(df) == df.isNone

transform_data(df, plan) == execute_plan(df, plan)

\* ------------------------------------------------------ validation engine
\* A rule, as the JSON object the planner wrote.
Rule(t, c, lo, hi) == [type |-> t, column |-> c, min |-> lo, max |-> hi]
NotNull(c) == Rule("not_null", c, 0, 0)
Positive(c) == Rule("positive", c, 0, 0)
InRange(c, lo, hi) == Rule("in_range", c, lo, hi)
Unique(c) == Rule("unique", c, 0, 0)
RowCountAtLeast(n) == Rule("row_count", "", n, 0)

\* The rule types whose branch of validate_data reads df[column]: a column the
\* table does not have raises KeyError there, and validate_data catches nothing.
ReadsColumn(rule) == rule.type \in {"not_null", "positive", "in_range", "unique"}

\* df[column].nunique(): the distinct non-null values of the column.
NUnique(df, column) == Cardinality({Values(df, column)[i] : i \in 1..Len(Values(df, column))})

\* validate_data with `negative_count = (df[column] <= 0).sum()`.
RulePassed_strictly_positive(df, rule) ==
  IF rule.type = "not_null" THEN NullCount(df, rule.column) = 0
  ELSE IF rule.type = "positive"
    THEN Len(SelectSeq(df.rows, LAMBDA r : ~r[rule.column].isnull /\ r[rule.column].val <= 0)) = 0
  ELSE IF rule.type = "in_range"
    THEN OutOfRangeCount(df, rule.column, rule.min, rule.max) = 0
  ELSE IF rule.type = "unique" THEN NRows(df) - NUnique(df, rule.column) = 0
  ELSE NRows(df) >= rule.min

\* The `passed` flag validate_data computes in the branch of the rule's type.
RulePassed(df, rule) ==
  IF rule.type = "not_null" THEN NullCount(df, rule.column) = 0
  ELSE IF rule.type = "positive" THEN NegativeCount(df, rule.column) = 0
  ELSE IF rule.type = "in_range"
    THEN OutOfRangeCount(df, rule.column, rule.min, rule.max) = 0
  ELSE IF rule.type = "unique" THEN NRows(df) - NUnique(df, rule.column) = 0
  ELSE NRows(df) >= rule.min

KnownRuleTypes == {"not_null", "positive", "in_range", "unique", "row_count"}

\* validate_data with every failed check setting valid to False.
apply_rule_strict(df, rule, res) ==
  IF rule.type \notin {"not_null", "positive", "in_range", "unique", "row_count"} THEN res
  ELSE [res EXCEPT !.checks = Append(@, [rule |-> rule, passed |-> RulePassed(df, rule)]),
                   !.valid = IF ~RulePassed(df, rule) THEN FALSE ELSE @]

\* One pass of the loop of validate_data over a rule of a known type: a check
\* is appended; a failed not_null or in_range adds a warning; a failed positive
\* or row_count adds an error and sets valid to False. A rule of any other type
\* matches no branch and leaves the result as it is.
apply_rule(df, rule, res) ==
  IF rule.type \notin KnownRuleTypes THEN res
  ELSE LET passed == RulePassed(df, rule)
           hard == rule.type \in {"positive", "row_count"}
           warns == rule.type \in {"not_null", "in_range"}
       IN [res EXCEPT !.checks = Append(@, [rule |-> rule, passed |-> passed]),
                      !.warnings = IF ~passed /\ warns THEN @ + 1 ELSE @,
                      !.errors = IF ~passed /\ hard THEN @ + 1 ELSE @,
                      !.valid = IF ~passed /\ hard THEN FALSE ELSE @]

\* The result dictionary validate_data starts from; present is FALSE for the
\* empty dictionary state['validation_result'] holds before any Validate visit.
EmptyDict == [present |-> FALSE, raised |-> FALSE, valid |-> TRUE, checks |-> <<>>,
              warnings |-> 0, errors |-> 0]
NewResults == [EmptyDict EXCEPT !.present = TRUE]

\* validate_data: the rules in order; raised = TRUE stands for the KeyError
\* that leaves the function at the first rule naming a missing column.
RECURSIVE validate_from(_, _, _)
validate_from(df, rules, res) ==
  IF rules = <<>> THEN res
  ELSE IF ReadsColumn(Head(rules)) /\ Head(rules).column \notin ColSet(df)
       THEN [res EXCEPT !.raised = TRUE]
       ELSE validate_from(df, Tail(rules), apply_rule(df, Head(rules), res))

validate_data(df, rules) == validate_from(df, rules, NewResults)

\* validation_result.get('valid', True)
GetValid(result) == IF result.present THEN result.valid ELSE TRUE

\* -------------------------------------------------------------------- sink
\* The target table in the database: absent, or present with a row count.
NoTable == [exists |-> FALSE, count |-> 0]
TableWith(n) == [exists |-> TRUE, count |-> n]
SinkStates == {NoTable} \cup {TableWith(n) : n \in 0..MaxRows}

\* The values of if_exists that DataFrame.to_sql knows.
IfExistsModes == {"fail", "replace", "append"}

\* load_to_database reporting, in append mode, the rows of df as the table's
\* final count.
load_to_database_append_replaces(df, sink, if_exists, accepted) ==
  IF \/ ~accepted
     \/ if_exists \notin IfExistsModes
     \/ if_exists = "fail" /\ sink.exists
  THEN [success |-> FALSE, error |-> "load error", rows_loaded |-> 0,
        previous_row_count |-> 0, current_row_count |-> 0, sink |-> sink]
  ELSE [success |-> TRUE, error |-> "", rows_loaded |-> NRows(df),
        previous_row_count |-> IF sink.exists THEN sink.count ELSE 0,
        current_row_count |-> NRows(df), sink |-> TableWith(NRows(df))]

\* load_to_database(df, db_path, table_name, if_exists) on the table named
\* table_name, whose state is `sink`. to_sql raises ValueError for a mode it
\* does not know and for 'fail' on a table that exists; accepted = FALSE is
\* any other exception of the sink. Every exception becomes a result with
\* success False and the error text, and leaves the table as it was. On
\* success 'replace' and the creation of a missing table leave exactly the rows
\* of df, 'append' adds them to the rows the table had; the final count is
\* read back from the table.
load_to_database(df, sink, if_exists, accepted) ==
  IF \/ ~accepted
     \/ if_exists \notin IfExistsModes
     \/ if_exists = "fail" /\ sink.exists
  THEN [success |-> FALSE, error |-> "load error", rows_loaded |-> 0,
        previous_row_count |-> 0, current_row_count |-> 0, sink |-> sink]
  ELSE LET final_count == IF if_exists = "append" /\ sink.exists
                          THEN sink.count + NRows(df) ELSE NRows(df)
       IN [success |-> TRUE, error |-> "", rows_loaded |-> NRows(df),
           previous_row_count |-> IF sink.exists THEN sink.count ELSE 0,
           current_row_count |-> final_count, sink |-> TableWith(final_count)]

\* verify_load comparing with >= where the code compares with ==.
verify_load_at_least(sink, expected_count, reachable) ==
  IF ~reachable \/ ~sink.exists
  THEN [success |-> FALSE, actual_count |-> 0, count_matches |-> FALSE]
  ELSE [success |-> TRUE, actual_count |-> sink.count,
        count_matches |-> (sink.count >= expected_count)]

\* verify_load: reachable = FALSE is any exception (success False); a missing
\* table is success False too; otherwise the count is compared.
verify_load(sink, expected_count, reachable) ==
  IF ~reachable \/ ~sink.exists
  THEN [success |-> FALSE, actual_count |-> 0, count_matches |-> FALSE]
  ELSE [success |-> TRUE, actual_count |-> sink.count,
        count_matches |-> (sink.count = expected_count)]

\* A statement is a string, a sequence of characters. str.strip() removes
\* the whitespace at both ends, str.upper() maps a letter to its capital and
\* leaves every other character, str.startswith compares the leading characters.
Whitespace == {" ", "\n"}

RECURSIVE lstrip(_)
lstrip(s) == IF s # <<>> /\ Head(s) \in Whitespace THEN lstrip(Tail(s)) ELSE s

RECURSIVE rstrip(_)
rstrip(s) ==
  IF s # <<>> /\ s[Len(s)] \in Whitespace THEN rstrip(SubSeq(s, 1, Len(s) - 1)) ELSE s

strip(s) == rstrip(lstrip(s))

UpperChar(c) ==
  CASE c = "s" -> "S" [] c = "e" -> "E" [] c = "l" -> "L" [] c = "c" -> "C"
    [] c = "t" -> "T" [] c = "d" -> "D" [] c = "r" -> "R" [] c = "o" -> "O"
    [] c = "p" -> "P" [] OTHER -> c

upper(s) == [i \in 1..Len(s) |-> UpperChar(s[i])]

\* `prefix in s` where the code has s.startswith(prefix).
startswith_anywhere(s, prefix) ==
  \E i \in 1..Len(s) : i + Len(prefix) - 1 <= Len(s)
                        /\ SubSeq(s, i, i + Len(prefix) - 1) = prefix

startswith(s, prefix) == Len(s) >= Len(prefix) /\ SubSeq(s, 1, Len(prefix)) = prefix

SELECT == <<"S", "E", "L", "E", "C", "T">>

\* query_database(db_path, query): a statement that does not start with
\* SELECT is answered before any connection is opened; any other is handed to
\* read_sql_query, whose exception (runs = FALSE) becomes a result with
\* success False. `executed` records that the statement reached the database.
query_database(query, runs) ==
  IF ~startswith(upper(strip(query)), SELECT)
  THEN [success |-> FALSE, error |-> "Only SELECT queries are allowed", executed |-> FALSE]
  ELSE IF runs
       THEN [success |-> TRUE, error |-> "", executed |-> TRUE]
       ELSE [success |-> FALSE, error |-> "query error", executed |-> TRUE]

\* ------------------------------------------------------------ environment
\* What the LLM can answer to TRANSFORMATION_PLANNING_PROMPT and to
\* ERROR_RECOVERY_PROMPT: text holding a JSON array of steps, or text with none.
PlannerPlans ==
  { <<>>,
    <<Step("fill_null", Col, "drop"), Step("remove_negative", Col, "")>>,
    <<Step("no_such_action", Col, "")>> }

ArrayResponse(items) == [kind |-> "array", items |-> items]
TextResponse == [kind |-> "text", items |-> <<>>]
UnrecoverableResponse == [kind |-> "unrecoverable", items |-> <<>>]

PlanResponses ==
  {TextResponse} \cup {ArrayResponse(p) : p \in PlannerPlans \cup {<<NoActionStep>>}}

RecoveryResponses ==
  {TextResponse, UnrecoverableResponse} \cup {ArrayResponse(p) : p \in PlannerPlans}

\* What the LLM can answer to VALIDATION_RULES_PROMPT. The row_count rule
\* asking for more rows than any table has is the rule set of a table that is
\* too short (1000 rows wanted of a 500-row table).
PlannerRuleLists ==
  { <<Positive(Col)>>,
    <<Positive(Col), RowCountAtLeast(MaxRows + 1)>>,
    <<NotNull(Col)>>,
    <<NotNull(NoCol)>> }

RuleResponses == {TextResponse} \cup {ArrayResponse(r) : r \in PlannerRuleLists}

\* ------------------------------------------------------------------- state
VARIABLES
  pc,                     \* the node the graph runs next, "END", or "raised"
  raw_data,               \* ETLState fields
  transformed_data,
  schema_analysis,
  transformation_plan,
  validation_rules,
  transformation_result,
  validation_result,
  load_result,
  reasoning_log,
  current_step,
  error,
  retry_count,
  final_status,
  sink,                   \* the target table in the database
  plan_entries,           \* history: how many times the plan node was entered
  retry_entries,          \* history: how many of those were by a "retry" edge
  last,                   \* history: the visit that led to pc
  engine_pc,              \* the engine called on its own: which function runs
  original_df,            \* the table the engine was called with
  self_df,                \* TransformationExecutor.df, the working table
  steps,                  \* the steps of the plan iterated so far
  transformation_log,     \* TransformationExecutor.transformation_log
  evaluated,              \* history: every text handed to eval so far
  checked_rules,          \* the rules validate_data has iterated so far
  results,                \* the `results` dictionary of validate_data
  statement,              \* the sink called on its own: the query handed over
  if_exists,              \* the mode handed to load_to_database
  sink_result,            \* what the call of the sink returned
  current,                \* two runs: which of them holds the variables above
  other,                  \* the context of the run that is waiting
  other_sink              \* the target table of the run that is waiting

etl_state == <<raw_data, transformed_data, schema_analysis, transformation_plan,
               validation_rules, transformation_result, validation_result,
               load_result, reasoning_log, current_step, error, retry_count,
               final_status>>
history == <<plan_entries, retry_entries, last>>
engine == <<copy_on_write, engine_pc, original_df, self_df, steps, transformation_log,
            evaluated, checked_rules, results>>
caller == <<statement, if_exists, sink_result>>
second_run == <<current, other, other_sink>>
vars == <<pc, etl_state, sink, history, engine, caller, second_run>>

\* state.get('reasoning_log', []) + [entry]
Logged(log, entry) == IF Len(log) < MaxLog THEN Append(log, entry) ELSE log

Count(n) == IF n < MaxVisits THEN n + 1 ELSE n

\* The record of a visit: the node, whether its own operation failed (the
\* extractor, the plan parse, the sink write, the sink's verification), the
\* edge label its check returned, and what the error node decided.
Visit(node, failed, edge, cause) ==
  [node |-> node, failed |-> failed, edge |-> edge, cause |-> cause]

\* ---------------------------------------------------------- conditional edges
check_extract(err) == IF err # "" THEN "error" ELSE "success"

check_plan(err) == IF err # "" THEN "error" ELSE "success"

check_transform(err) == IF err # "" THEN "error" ELSE "success"

\* _check_validation with the `not` of its verdict test left out.
check_validation_inverted(err, result, retries) ==
  IF err # "" THEN "error"
  ELSE IF GetValid(result) /\ retries < MaxRetries THEN "retry"
  ELSE "success"

\* _check_validation without its retry branch.
check_validation_no_retry(err, result, retries) ==
  IF err # "" THEN "error" ELSE "success"

check_validation(err, result, retries) ==
  IF err # "" THEN "error"
  ELSE IF ~GetValid(result) /\ retries < MaxRetries THEN "retry"
  ELSE "success"

check_load(err) == IF err # "" THEN "error" ELSE "success"

\* _check_recovery with retry_count <= 2 where the code has retry_count < 2.
check_recovery_inclusive(status, retries) ==
  IF status = "FAILED" THEN "fail"
  ELSE IF retries <= MaxRetries THEN "retry"
  ELSE "fail"

check_recovery(status, retries) ==
  IF status = "FAILED" THEN "fail"
  ELSE IF retries < MaxRetries THEN "retry"
  ELSE "fail"

\* The targets add_conditional_edges / add_edge give each node in _build_graph.
Edge(node, label) ==
  CASE node = "extract" -> IF label = "success" THEN "analyze" ELSE "handle_error"
    [] node = "analyze" -> "plan"
    [] node = "plan" -> IF label = "success" THEN "transform" ELSE "handle_error"
    [] node = "transform" -> IF label = "success" THEN "validate" ELSE "handle_error"
    [] node = "validate" -> IF label = "success" THEN "load"
                            ELSE IF label = "retry" THEN "plan" ELSE "handle_error"
    [] node = "load" -> IF label = "success" THEN "verify" ELSE "handle_error"
    [] node = "verify" -> "END"
    [] node = "handle_error" -> IF label = "retry" THEN "plan" ELSE "END"

\* The graph moves to the target of the edge; the history counts entries of plan.
Goto(node, label, failed, cause) ==
  /\ pc' = Edge(node, label)
  /\ plan_entries' = IF Edge(node, label) = "plan" THEN Count(plan_entries) ELSE plan_entries
  /\ retry_entries' = IF Edge(node, label) = "plan" /\ label = "retry"
                      THEN Count(retry_entries) ELSE retry_entries
  /\ last' = Visit(node, failed, label, cause)
  /\ UNCHANGED <<engine, caller, second_run>>

\* A node that raises: graph.invoke raises, run() returns no final state.
Raise(node) ==
  /\ pc' = "raised"
  /\ last' = Visit(node, TRUE, "raised", "")
  /\ UNCHANGED <<etl_state, sink, plan_entries, retry_entries, engine, caller,
                 second_run>>

\* --------------------------------------------------------------------- run
\* initial_state of ETLAgent.run.
initial_state ==
  /\ raw_data = None
  /\ transformed_data = None
  /\ schema_analysis = [present |-> FALSE, row_count |-> 0]
  /\ transformation_plan = <<>>
  /\ validation_rules = <<>>
  /\ transformation_result = [present |-> FALSE, transformation_log |-> <<>>,
                              final_row_count |-> 0]
  /\ validation_result = EmptyDict
  /\ load_result = [present |-> FALSE, rows_loaded |-> 0, previous_row_count |-> 0,
                    current_row_count |-> 0]
  /\ reasoning_log = <<>>
  /\ current_step = ""
  /\ error = ""
  /\ retry_count = 0
  /\ final_status = ""

NoHistory ==
  /\ plan_entries = 0
  /\ retry_entries = 0
  /\ last = Visit("", FALSE, "", "")

\* The engine's own state while the agent runs: the nodes call transform_data
\* and validate_data as functions of their state. The plans of the agent's
\* planner hold no in-place fill, so the build makes no difference to a run.
EngineNotCalled ==
  /\ copy_on_write = FALSE
  /\ engine_pc = "not_called"
  /\ original_df = None
  /\ self_df = None
  /\ steps = <<>>
  /\ transformation_log = <<>>
  /\ evaluated = {}
  /\ checked_rules = <<>>
  /\ results = NewResults

\* No call of the sink from outside the agent.
NoSinkResult ==
  [call |-> "", success |-> FALSE, error |-> "", executed |-> FALSE, rows_loaded |-> 0,
   previous_row_count |-> 0, current_row_count |-> 0]

SinkNotCalled ==
  /\ statement = <<>>
  /\ if_exists = ""
  /\ sink_result = NoSinkResult

\* One run only: no second context, no second table.
NoContext == [pc |-> "not_invoked"]

OneRun ==
  /\ current = 1
  /\ other = NoContext
  /\ other_sink = NoTable

\* ETLAgent.run with the graph at its entry point. The target table may or
\* may not exist in the database before the run.
Init ==
  /\ pc = "extract"
  /\ initial_state
  /\ sink \in {NoTable, TableWith(MaxRows)}
  /\ NoHistory
  /\ EngineNotCalled
  /\ SinkNotCalled
  /\ OneRun

\* ------------------------------------------------------------------- nodes
\* _extract_node, then _check_extract.
extract_node ==
  /\ pc = "extract"
  /\ \/ \E df \in ExtractedTables :
          /\ raw_data' = df
          /\ current_step' = "extract"
          /\ reasoning_log' = Logged(reasoning_log, "extract")
          /\ error' = error
          /\ Goto("extract", check_extract(error'), FALSE, "")
     \/ /\ error' = "extraction error"
        /\ current_step' = "extract"
        /\ UNCHANGED <<raw_data, reasoning_log>>
        /\ Goto("extract", check_extract(error'), TRUE, "")
  /\ UNCHANGED <<transformed_data, schema_analysis, transformation_plan, validation_rules,
                 transformation_result, validation_result, load_result, retry_count,
                 final_status, sink>>

\* _analyze_node, then the edge analyze -> plan.
analyze_node ==
  /\ pc = "analyze"
  /\ schema_analysis' = [present |-> TRUE, row_count |-> NRows(raw_data)]
  /\ current_step' = "analyze"
  /\ reasoning_log' = Logged(reasoning_log, "analyze")
  /\ Goto("analyze", "", FALSE, "")
  /\ UNCHANGED <<raw_data, transformed_data, transformation_plan, validation_rules,
                 transformation_result, validation_result, load_result, error,
                 retry_count, final_status, sink>>

\* The try block of _plan_node: the text between the first '[' and the last
\* ']' is parsed and every step is printed by step['action'], which raises
\* KeyError for a step with no "action"; any exception is the parse failure.
PlanParses(response) ==
  /\ response.kind = "array"
  /\ \A i \in 1..Len(response.items) : response.items[i].hasAction

\* _plan_node keeping the plan the error node stored, without asking the
\* planner again.
plan_node_keeps_corrected ==
  /\ pc = "plan"
  /\ IF last.node = "handle_error"
     THEN /\ current_step' = "plan"
          /\ reasoning_log' = Logged(reasoning_log, "plan")
          /\ UNCHANGED <<transformation_plan, error>>
          /\ Goto("plan", check_plan(error'), FALSE, "")
     ELSE \E response \in PlanResponses :
            IF PlanParses(response)
            THEN /\ transformation_plan' = response.items
                 /\ current_step' = "plan"
                 /\ reasoning_log' = Logged(reasoning_log, "plan")
                 /\ error' = error
                 /\ Goto("plan", check_plan(error'), FALSE, "")
            ELSE /\ error' = "Failed to parse transformation plan"
                 /\ current_step' = "plan"
                 /\ UNCHANGED <<transformation_plan, reasoning_log>>
                 /\ Goto("plan", check_plan(error'), TRUE, "")
  /\ UNCHANGED <<raw_data, transformed_data, schema_analysis, validation_rules,
                 transformation_result, validation_result, load_result, retry_count,
                 final_status, sink>>

\* _plan_node, then _check_plan.
plan_node ==
  /\ pc = "plan"
  /\ \E response \in PlanResponses :
       IF PlanParses(response)
       THEN /\ transformation_plan' = response.items
            /\ current_step' = "plan"
            /\ reasoning_log' = Logged(reasoning_log, "plan")
            /\ error' = error
            /\ Goto("plan", check_plan(error'), FALSE, "")
       ELSE /\ error' = "Failed to parse transformation plan"
            /\ current_step' = "plan"
            /\ UNCHANGED <<transformation_plan, reasoning_log>>
            /\ Goto("plan", check_plan(error'), TRUE, "")
  /\ UNCHANGED <<raw_data, transformed_data, schema_analysis, validation_rules,
                 transformation_result, validation_result, load_result, retry_count,
                 final_status, sink>>

\* _transform_node keeping no rule when the response holds no array.
ParsedRules_none(response) ==
  IF response.kind = "array" THEN response.items ELSE <<>>

\* The rule list _transform_node keeps: the parsed array, or the default list
\* when the response holds no array.
ParsedRules(response) ==
  IF response.kind = "array" THEN response.items
  ELSE <<RowCountAtLeast(DefaultMinRows)>>

\* _transform_node handing the executor the table of the previous Transform
\* visit where there is one.
transform_node_chained ==
  /\ pc = "transform"
  /\ IF transform_raises(raw_data)
     THEN Raise("transform")
     ELSE LET df == IF transformed_data = None THEN raw_data ELSE transformed_data
              result == transform_data(df, transformation_plan)
          IN /\ \E response \in RuleResponses : validation_rules' = ParsedRules(response)
             /\ transformed_data' = result.transformed_data
             /\ transformation_result' =
                  [present |-> TRUE, transformation_log |-> result.transformation_log,
                   final_row_count |-> result.final_row_count]
             /\ current_step' = "transform"
             /\ reasoning_log' = Logged(reasoning_log, "transform")
             /\ Goto("transform", check_transform(error), FALSE, "")
             /\ UNCHANGED <<raw_data, schema_analysis, transformation_plan,
                            validation_result, load_result, error, retry_count,
                            final_status, sink>>

\* _transform_node, then _check_transform. The plan is applied to raw_data.
transform_node ==
  /\ pc = "transform"
  /\ IF transform_raises(raw_data)
     THEN Raise("transform")
     ELSE LET result == transform_data(raw_data, transformation_plan)
          IN /\ \E response \in RuleResponses : validation_rules' = ParsedRules(response)
             /\ transformed_data' = result.transformed_data
             /\ transformation_result' =
                  [present |-> TRUE, transformation_log |-> result.transformation_log,
                   final_row_count |-> result.final_row_count]
             /\ current_step' = "transform"
             /\ reasoning_log' = Logged(reasoning_log, "transform")
             /\ Goto("transform", check_transform(error), FALSE, "")
             /\ UNCHANGED <<raw_data, schema_analysis, transformation_plan,
                            validation_result, load_result, error, retry_count,
                            final_status, sink>>

\* _validate_node, then _check_validation.
validate_node ==
  /\ pc = "validate"
  /\ LET result == validate_data(transformed_data, validation_rules)
     IN IF result.raised
        THEN Raise("validate")
        ELSE /\ validation_result' = result
             /\ current_step' = "validate"
             /\ reasoning_log' = Logged(reasoning_log, "validate")
             /\ Goto("validate", check_validation(error, validation_result', retry_count),
                     FALSE, "")
             /\ UNCHANGED <<raw_data, transformed_data, schema_analysis,
                            transformation_plan, validation_rules, transformation_result,
                            load_result, error, retry_count, final_status, sink>>

\* _load_node handing the extracted table to the sink.
load_node_raw ==
  /\ pc = "load"
  /\ \E accepted \in BOOLEAN :
       LET result == load_to_database(raw_data, sink, "replace", accepted)
       IN /\ sink' = result.sink
          /\ current_step' = "load"
          /\ IF result.success
             THEN /\ load_result' = [present |-> TRUE, rows_loaded |-> result.rows_loaded,
                                     previous_row_count |-> result.previous_row_count,
                                     current_row_count |-> result.current_row_count]
                  /\ reasoning_log' = Logged(reasoning_log, "load")
                  /\ error' = error
             ELSE /\ error' = result.error
                  /\ UNCHANGED <<load_result, reasoning_log>>
          /\ Goto("load", check_load(error'), ~result.success, "")
  /\ UNCHANGED <<raw_data, transformed_data, schema_analysis, transformation_plan,
                 validation_rules, transformation_result, validation_result,
                 retry_count, final_status>>

\* _load_node, then _check_load.
load_node ==
  /\ pc = "load"
  /\ \E accepted \in BOOLEAN :
       LET result == load_to_database(transformed_data, sink, "replace", accepted)
       IN /\ sink' = result.sink
          /\ current_step' = "load"
          /\ IF result.success
             THEN /\ load_result' = [present |-> TRUE, rows_loaded |-> result.rows_loaded,
                                     previous_row_count |-> result.previous_row_count,
                                     current_row_count |-> result.current_row_count]
                  /\ reasoning_log' = Logged(reasoning_log, "load")
                  /\ error' = error
             ELSE /\ error' = result.error
                  /\ UNCHANGED <<load_result, reasoning_log>>
          /\ Goto("load", check_load(error'), ~result.success, "")
  /\ UNCHANGED <<raw_data, transformed_data, schema_analysis, transformation_plan,
                 validation_rules, transformation_result, validation_result,
                 retry_count, final_status>>

\* _verify_node reporting a failed verification as a failed run.
VerifyStatus_failed(result) ==
  IF result.success /\ result.count_matches THEN "SUCCESS" ELSE "FAILED"

\* The final_status _verify_node returns for a result of verify_load.
VerifyStatus(result) ==
  IF result.success /\ result.count_matches THEN "SUCCESS" ELSE "COMPLETED_WITH_WARNINGS"

\* _verify_node, then the edge verify -> END. The database is read as it is
\* at that moment: as the load left it, or as another client has left it since.
verify_node ==
  /\ pc = "verify"
  /\ \E found \in SinkStates, reachable \in BOOLEAN :
       LET result == verify_load(found, NRows(transformed_data), reachable)
       IN /\ sink' = found
          /\ final_status' = VerifyStatus(result)
          /\ reasoning_log' = Logged(reasoning_log, "verify")
          /\ Goto("verify", "", ~result.success, "")
  /\ UNCHANGED <<raw_data, transformed_data, schema_analysis, transformation_plan,
                 validation_rules, transformation_result, validation_result,
                 load_result, current_step, error, retry_count>>

\* _error_node with retry_count - 1 where the code has retry_count + 1.
Recovery_decrements(response, retries, plan) ==
  IF response.kind = "array"
  THEN [status |-> "", retry_count |-> retries - 1, plan |-> response.items,
        cleared |-> TRUE, logged |-> TRUE, cause |-> "recovered"]
  ELSE [status |-> "FAILED", retry_count |-> retries - 1, plan |-> plan,
        cleared |-> FALSE, logged |-> FALSE,
        cause |-> IF response.kind = "unrecoverable" THEN "unrecoverable" ELSE "unparsable"]

\* _error_node returning the corrected plan without "error": "".
Recovery_keeps_error(response, retries, plan) ==
  IF response.kind = "array"
  THEN [status |-> "", retry_count |-> retries + 1, plan |-> response.items,
        cleared |-> FALSE, logged |-> TRUE, cause |-> "recovered"]
  ELSE [status |-> "FAILED", retry_count |-> retries + 1, plan |-> plan,
        cleared |-> FALSE, logged |-> FALSE,
        cause |-> IF response.kind = "unrecoverable" THEN "unrecoverable" ELSE "unparsable"]

\* What _error_node returns below its `retry_count >= 2` test, by the LLM's
\* answer: the keys it sets (status "" is final_status not returned, cleared
\* is "error": "", logged is the "Retry n" entry of reasoning_log).
Recovery(response, retries, plan) ==
  IF response.kind = "array"
  THEN [status |-> "", retry_count |-> retries + 1, plan |-> response.items,
        cleared |-> TRUE, logged |-> TRUE, cause |-> "recovered"]
  ELSE [status |-> "FAILED", retry_count |-> retries + 1, plan |-> plan,
        cleared |-> FALSE, logged |-> FALSE,
        cause |-> IF response.kind = "unrecoverable" THEN "unrecoverable" ELSE "unparsable"]

\* _error_node, then _check_recovery.
error_node ==
  /\ pc = "handle_error"
  /\ IF retry_count >= MaxRetries
     THEN /\ final_status' = "FAILED"
          /\ retry_count' = retry_count
          /\ UNCHANGED <<transformation_plan, error, reasoning_log>>
          /\ Goto("handle_error", check_recovery(final_status', retry_count'), FALSE,
                  "exhausted")
     ELSE \E response \in RecoveryResponses :
            LET r == Recovery(response, retry_count, transformation_plan)
            IN /\ final_status' = IF r.status = "" THEN final_status ELSE r.status
               /\ retry_count' = r.retry_count
               /\ transformation_plan' = r.plan
               /\ error' = IF r.cleared THEN "" ELSE error
               /\ reasoning_log' = IF r.logged THEN Logged(reasoning_log, "retry")
                                   ELSE reasoning_log
               /\ Goto("handle_error", check_recovery(final_status', retry_count'), FALSE,
                       r.cause)
  /\ UNCHANGED <<raw_data, transformed_data, schema_analysis, validation_rules,
                 transformation_result, validation_result, load_result, current_step, sink>>

Next ==
  \/ extract_node
  \/ analyze_node
  \/ plan_node
  \/ transform_node
  \/ validate_node
  \/ load_node
  \/ verify_node
  \/ error_node

Spec == Init /\ [][Next]_vars

\* The graph runner always runs the node it has moved to.
FairSpec == Spec /\ WF_vars(Next)

\* ------------------------------------------- the engine called on its own
\* transform_data(df, plan) and validate_data(df, rules) are public functions
\* of tools/transform_tool.py; here they run on any table, plan and rule list,
\* without the agent. The loop of execute_plan and the loop of validate_data
\* take one step, one rule, per action; the plan and the rule list are read as
\* the loops reach them.

\* The tables handed to the engine: two numeric columns, at most MaxRows rows.
EngineRows == {[c \in {Col, Dist} |-> IF c = Col THEN a ELSE b] :
                 a \in Cells, b \in {Num(0), Num(1)}}
EngineTables == {DataFrame(<<Col, Dist>>, rows) : rows \in SeqsUpTo(EngineRows, MaxRows)}

\* The agent is not running.
NotInvoked ==
  /\ pc = "not_invoked"
  /\ initial_state
  /\ sink = NoTable
  /\ NoHistory

\* TransformationExecutor.__init__ / the head of validate_data, on a table.
EngineInit ==
  /\ NotInvoked
  /\ SinkNotCalled
  /\ OneRun
  /\ copy_on_write \in BOOLEAN
  /\ engine_pc = "called"
  /\ original_df \in EngineTables
  /\ self_df = original_df
  /\ steps = <<>>
  /\ transformation_log = <<>>
  /\ evaluated = {}
  /\ checked_rules = <<>>
  /\ results = NewResults

\* One pass of the loop of execute_plan, on a step out of `universe`.
execute_plan_step(universe) ==
  /\ engine_pc \in {"called", "execute_plan"}
  /\ Len(steps) < MaxPlanLen
  /\ \E step \in universe :
       LET r == execute_step(self_df, step)
       IN /\ self_df' = r.df
          /\ steps' = Append(steps, step)
          /\ transformation_log' =
               Append(transformation_log, LogEntry(Len(steps) + 1, step, r))
          /\ evaluated' = IF r.evaluated = "" THEN evaluated
                          ELSE evaluated \cup {r.evaluated}
  /\ engine_pc' = "execute_plan"
  /\ UNCHANGED <<pc, etl_state, sink, history, caller, second_run, copy_on_write,
                 original_df,
                 checked_rules, results>>

\* The plan is exhausted: execute_plan returns self.df and the log.
execute_plan_return ==
  /\ engine_pc \in {"called", "execute_plan"}
  /\ engine_pc' = "returned"
  /\ UNCHANGED <<pc, etl_state, sink, history, caller, second_run, copy_on_write,
                 original_df, self_df,
                 steps, transformation_log, evaluated, checked_rules, results>>

\* One pass of the loop of validate_data, on a rule out of `universe`; a rule
\* reading a column the table does not have raises KeyError out of the call.
validate_rule(universe) ==
  /\ engine_pc \in {"called", "validate_data"}
  /\ Len(checked_rules) < MaxRules
  /\ \E rule \in universe :
       /\ checked_rules' = Append(checked_rules, rule)
       /\ IF ReadsColumn(rule) /\ rule.column \notin ColSet(original_df)
          THEN /\ results' = [results EXCEPT !.raised = TRUE]
               /\ engine_pc' = "raised"
          ELSE /\ results' = apply_rule(original_df, rule, results)
               /\ engine_pc' = "validate_data"
  /\ UNCHANGED <<pc, etl_state, sink, history, caller, second_run, copy_on_write,
                 original_df, self_df,
                 steps, transformation_log, evaluated>>

\* The rule list is exhausted: validate_data returns `results`.
validate_return ==
  /\ engine_pc \in {"called", "validate_data"}
  /\ engine_pc' = "returned"
  /\ UNCHANGED <<pc, etl_state, sink, history, caller, second_run, copy_on_write,
                 original_df, self_df,
                 steps, transformation_log, evaluated, checked_rules, results>>

\* The steps of the plans handed to the engine: steps that succeed, steps on
\* a missing column, an unknown action, a missing parameter, renames.
PlanSteps ==
  { Step("fill_null", Col, "drop"),
    Step("remove_negative", Col, ""),
    Step("remove_negative", NoCol, ""),
    Step("drop_column", Col, ""),
    Step("no_such_action", Col, ""),
    FillValue(Col, NULL),
    StandardizeText(Col, "lower"),
    RenameColumn(Col, "fare"),
    RenameColumn(Col, "amount") }

PlanNext ==
  \/ execute_plan_step(PlanSteps)
  \/ execute_plan_return

PlanSpec == EngineInit /\ [][PlanNext]_vars

\* The steps of the cleaning plans: every strategy of fill_null, a strategy it
\* does not know, remove_negative, remove_duplicates with and without subset.
CleaningSteps ==
  { Step("fill_null", Col, "drop"),
    FillValue(Col, Num(0)),
    Step("fill_null", Col, "mean"),
    Step("fill_null", Col, "median"),
    Step("fill_null", Col, "mode"),
    Step("fill_null", Col, "forward_fill"),
    Step("fill_null", Col, "interpolate"),
    Step("remove_negative", Col, ""),
    RemoveDuplicates(<<>>),
    RemoveDuplicates(<<Col>>) }

CleaningNext ==
  \/ execute_plan_step(CleaningSteps)
  \/ execute_plan_return

CleaningSpec == EngineInit /\ [][CleaningNext]_vars

\* The steps of the deriving plans: add_derived_column and filter_rows with
\* names, expressions and conditions inside and outside the fixed lists, and
\* drop_column to take away a column the fixed expressions read.
DerivingSteps ==
  { AddDerivedColumn("fare_per_mile", "fare_per_mile"),
    AddDerivedColumn("fare_per_mile", "fare_amount * 2"),
    AddDerivedColumn("fare_doubled", "fare_per_mile"),
    AddDerivedColumn("fare_doubled", "fare_amount * 2"),
    AddDerivedColumn("tip_percentage", "tip_percentage"),
    AddDerivedColumn("trip_duration_minutes", "trip_duration_minutes"),
    FilterRows("valid_fare"),
    FilterRows("valid_trip_distance"),
    FilterRows("valid_passengers"),
    FilterRows("fare_amount > 0"),
    Step("drop_column", Dist, "") }

DerivingNext ==
  \/ execute_plan_step(DerivingSteps)
  \/ execute_plan_return

DerivingSpec == EngineInit /\ [][DerivingNext]_vars

\* The rules of the rule lists handed to validate_data: every rule type on a
\* column of the table, a row_count no table reaches, a type validate_data does
\* not know, a rule on a column the table does not have.
EngineRules ==
  { NotNull(Col),
    Positive(Col),
    Positive(Dist),
    InRange(Col, 0, 1),
    Unique(Col),
    RowCountAtLeast(DefaultMinRows),
    RowCountAtLeast(MaxRows + 1),
    Rule("no_such_type", Col, 0, 0),
    NotNull(NoCol) }

RuleNext ==
  \/ validate_rule(EngineRules)
  \/ validate_return

RuleSpec == EngineInit /\ [][RuleNext]_vars

\* ----------------------------------------------- the sink called on its own
\* load_to_database and query_database are public functions of
\* tools/load_tool.py; here they are called on a table of the database in any
\* state, with any mode and any statement, without the agent.

\* The statements handed to query_database: up to MaxTokens pieces of text.
MaxTokens == 3

QueryTokens ==
  { SELECT, <<"s", "E", "L">>, <<"e", "c", "t">>, <<"D", "R", "O", "P">>, <<" ">>, <<"\n">> }

RECURSIVE Joined(_)
Joined(pieces) == IF pieces = <<>> THEN <<>> ELSE Head(pieces) \o Joined(Tail(pieces))

Statements == {Joined(pieces) : pieces \in SeqsUpTo(QueryTokens, MaxTokens)}

\* The table to load and the target table before the call.
SinkInit ==
  /\ pc = "not_invoked"
  /\ initial_state
  /\ NoHistory
  /\ sink \in SinkStates
  /\ copy_on_write = FALSE
  /\ engine_pc = "not_called"
  /\ original_df \in ExtractedTables
  /\ self_df = original_df
  /\ steps = <<>>
  /\ transformation_log = <<>>
  /\ evaluated = {}
  /\ checked_rules = <<>>
  /\ results = NewResults
  /\ SinkNotCalled
  /\ OneRun

\* The one call of load_to_database(original_df, db_path, table_name, mode).
load_call ==
  /\ sink_result.call = ""
  /\ \E mode \in IfExistsModes \cup {"overwrite"}, accepted \in BOOLEAN :
       LET r == load_to_database(original_df, sink, mode, accepted)
       IN /\ sink' = r.sink
          /\ if_exists' = mode
          /\ sink_result' = [call |-> "load", success |-> r.success, error |-> r.error,
                             executed |-> TRUE, rows_loaded |-> r.rows_loaded,
                             previous_row_count |-> r.previous_row_count,
                             current_row_count |-> r.current_row_count]
  /\ UNCHANGED <<pc, etl_state, history, engine, statement, second_run>>

\* The one call of query_database(db_path, query): no statement it lets
\* through writes to the table.
query_call ==
  /\ sink_result.call = ""
  /\ \E query \in Statements, runs \in BOOLEAN :
       LET r == query_database(query, runs)
       IN /\ statement' = query
          /\ sink_result' = [call |-> "query", success |-> r.success, error |-> r.error,
                             executed |-> r.executed, rows_loaded |-> 0,
                             previous_row_count |-> 0, current_row_count |-> 0]
  /\ UNCHANGED <<pc, etl_state, sink, history, engine, if_exists, second_run>>

SinkNext ==
  \/ load_call
  \/ query_call

SinkSpec == SinkInit /\ [][SinkNext]_vars

\* ------------------------------------------------ two runs on one database
\* Two calls of ETLAgent.run with the same target_db and different
\* target_table, each with its own initial_state, interleaved node by node. The
\* variables of the agent hold the run that is stepping; `other` holds the
\* state of the run that waits and `other_sink` the table its target_table names.

\* The ETLState and position of the run that holds the variables.
Context ==
  [pc |-> pc, raw_data |-> raw_data, transformed_data |-> transformed_data,
   schema_analysis |-> schema_analysis, transformation_plan |-> transformation_plan,
   validation_rules |-> validation_rules, transformation_result |-> transformation_result,
   validation_result |-> validation_result, load_result |-> load_result,
   reasoning_log |-> reasoning_log, current_step |-> current_step, error |-> error,
   retry_count |-> retry_count, final_status |-> final_status,
   plan_entries |-> plan_entries, retry_entries |-> retry_entries, last |-> last]

\* The source of each run: tables of different lengths.
Row(v) == [c \in {Col} |-> v]

SourceOf(run) ==
  IF run = 1 THEN DataFrame(<<Col>>, <<Row(Num(1)), Row(Num(1))>>)
  ELSE DataFrame(<<Col>>, <<Row(Num(1))>>)

\* Both runs at the entry point of the graph, each target table absent or
\* holding rows of an earlier load.
TwoRunsInit ==
  /\ pc = "extract"
  /\ initial_state
  /\ NoHistory
  /\ sink \in {NoTable, TableWith(MaxRows)}
  /\ EngineNotCalled
  /\ SinkNotCalled
  /\ current = 1
  /\ other = Context
  /\ other_sink \in {NoTable, TableWith(MaxRows)}

\* The extractor of each run reads that run's source, the planner answers
\* with no plan, the empty plan or the cleaning plan and with no rules or one
\* rule, and nothing but the two runs writes to the database: the verification
\* finds the table as the loads left it.
OwnSource ==
  /\ raw_data \in {None, SourceOf(current)}
  /\ transformation_plan \in
       {<<>>, <<Step("fill_null", Col, "drop"), Step("remove_negative", Col, "")>>}
  /\ validation_rules \in {<<>>, <<Positive(Col)>>}

NoOtherWriter == pc = "verify" => sink' = sink

\* A node of the run that holds the variables.
RunStep ==
  /\ Next
  /\ NoOtherWriter
  /\ OwnSource'

\* Both runs given one target_table: the handover leaves the table in place.
SwitchRun_same_table ==
  /\ other.pc \notin {"END", "raised"}
  /\ current' = 3 - current
  /\ other' = Context
  /\ UNCHANGED <<sink, other_sink>>
  /\ pc' = other.pc
  /\ raw_data' = other.raw_data
  /\ transformed_data' = other.transformed_data
  /\ schema_analysis' = other.schema_analysis
  /\ transformation_plan' = other.transformation_plan
  /\ validation_rules' = other.validation_rules
  /\ transformation_result' = other.transformation_result
  /\ validation_result' = other.validation_result
  /\ load_result' = other.load_result
  /\ reasoning_log' = other.reasoning_log
  /\ current_step' = other.current_step
  /\ error' = other.error
  /\ retry_count' = other.retry_count
  /\ final_status' = other.final_status
  /\ plan_entries' = other.plan_entries
  /\ retry_entries' = other.retry_entries
  /\ last' = other.last
  /\ UNCHANGED <<engine, caller>>

\* The scheduler hands over to the run that waits, between two nodes. Every
\* statement of load_to_database and verify_load names table_name, so each run
\* finds the table of its own target_table.
SwitchRun ==
  /\ other.pc \notin {"END", "raised"}
  /\ current' = 3 - current
  /\ other' = Context
  /\ other_sink' = sink
  /\ sink' = other_sink
  /\ pc' = other.pc
  /\ raw_data' = other.raw_data
  /\ transformed_data' = other.transformed_data
  /\ schema_analysis' = other.schema_analysis
  /\ transformation_plan' = other.transformation_plan
  /\ validation_rules' = other.validation_rules
  /\ transformation_result' = other.transformation_result
  /\ validation_result' = other.validation_result
  /\ load_result' = other.load_result
  /\ reasoning_log' = other.reasoning_log
  /\ current_step' = other.current_step
  /\ error' = other.error
  /\ retry_count' = other.retry_count
  /\ final_status' = other.final_status
  /\ plan_entries' = other.plan_entries
  /\ retry_entries' = other.retry_entries
  /\ last' = other.last
  /\ UNCHANGED <<engine, caller>>

TwoRunsNext ==
  \/ RunStep
  \/ SwitchRun

TwoRunsSpec == TwoRunsInit /\ [][TwoRunsNext]_vars

\* ------------------------------------------------- two runs on one table
\* Two calls of ETLAgent.run with the same target_db and the same
\* target_table: `sink` is the one table both name, there is no second table.
SharedInit ==
  /\ pc = "extract"
  /\ initial_state
  /\ NoHistory
  /\ sink \in {NoTable, TableWith(MaxRows)}
  /\ EngineNotCalled
  /\ SinkNotCalled
  /\ current = 1
  /\ other = Context
  /\ other_sink = NoTable

\* A handover that waits while the stepping run is between its Load and its
\* Verify, as a lock on the table held from Load to Verify would make it.
SwitchShared_serialized ==
  /\ other.pc \notin {"END", "raised"}
  /\ pc # "verify"
  /\ current' = 3 - current
  /\ other' = Context
  /\ UNCHANGED <<sink, other_sink>>
  /\ pc' = other.pc
  /\ raw_data' = other.raw_data
  /\ transformed_data' = other.transformed_data
  /\ schema_analysis' = other.schema_analysis
  /\ transformation_plan' = other.transformation_plan
  /\ validation_rules' = other.validation_rules
  /\ transformation_result' = other.transformation_result
  /\ validation_result' = other.validation_result
  /\ load_result' = other.load_result
  /\ reasoning_log' = other.reasoning_log
  /\ current_step' = other.current_step
  /\ error' = other.error
  /\ retry_count' = other.retry_count
  /\ final_status' = other.final_status
  /\ plan_entries' = other.plan_entries
  /\ retry_entries' = other.retry_entries
  /\ last' = other.last
  /\ UNCHANGED <<engine, caller>>

\* The scheduler hands over to the run that waits, between two nodes. No node
\* takes a lock or opens a transaction that outlives it: load_to_database and
\* verify_load each open and close their own connection, so the handover is
\* possible after every node and the table stays as the last writer left it.
SwitchShared ==
  /\ other.pc \notin {"END", "raised"}
  /\ current' = 3 - current
  /\ other' = Context
  /\ UNCHANGED <<sink, other_sink>>
  /\ pc' = other.pc
  /\ raw_data' = other.raw_data
  /\ transformed_data' = other.transformed_data
  /\ schema_analysis' = other.schema_analysis
  /\ transformation_plan' = other.transformation_plan
  /\ validation_rules' = other.validation_rules
  /\ transformation_result' = other.transformation_result
  /\ validation_result' = other.validation_result
  /\ load_result' = other.load_result
  /\ reasoning_log' = other.reasoning_log
  /\ current_step' = other.current_step
  /\ error' = other.error
  /\ retry_count' = other.retry_count
  /\ final_status' = other.final_status
  /\ plan_entries' = other.plan_entries
  /\ retry_entries' = other.retry_entries
  /\ last' = other.last
  /\ UNCHANGED <<engine, caller>>

SharedNext ==
  \/ RunStep
  \/ SwitchShared

SharedSpec == SharedInit /\ [][SharedNext]_vars

\* ------------------------------------------------------------------ claims
Terminal == {"END"}

\* C1: every run reaches a terminal state after finitely many state visits,
\* also a run whose verdict is invalid on every Validate visit. Stated here
\* with a run that leaves the graph through an exception counted as ended too,
\* so that what refutes it is the cycle plan -> transform -> validate -> plan.
C1_RunEnds == <>(pc \in Terminal \cup {"raised"})

\* C2: in one run the plan node is re-entered by a retry edge (from validate
\* or from handle_error, counted together) at most 2 times, so it is entered
\* at most 3 times.
C2_PlanEntriesBounded ==
  /\ retry_entries <= MaxRetries
  /\ plan_entries <= MaxRetries + 1

\* C3: the retry counter starts at 0, is between 0 and 2 in every reachable
\* state, and no step decreases it.
C3_RetryCountInRange ==
  /\ retry_count = 0
  /\ [](retry_count \in 0..MaxRetries)
  /\ [][retry_count' >= retry_count]_vars

\* C3 witness: the counter has reached 2 in a visit of the error node.
C3_Witness == retry_count = MaxRetries /\ last.node = "handle_error"

\* A step that enters plan by a "retry" edge counts one retry and leaves no error.
RetryIntoPlanCounts ==
  (pc' = "plan" /\ last'.edge = "retry") => (retry_count' = retry_count + 1 /\ error' = "")

\* C4: every retry transition into plan, from validate or from handle_error,
\* increments the retry counter by exactly 1 and leaves the error cleared.
C4_RetryIncrements == [][RetryIntoPlanCounts]_vars

\* The rule set of the too-short table: Positive and a RowCountAtLeast above
\* the table's row count.
ShortTableRules == <<Positive(Col), RowCountAtLeast(MaxRows + 1)>>

\* The node a Validate visit moves to, by the verdict it stored and the retry
\* counter; a visit in which validate_data raises stores no verdict.
AfterValidate ==
  (pc = "validate" /\ pc' # "raised")
    => /\ GetValid(validation_result') => pc' = "load"
       /\ (~GetValid(validation_result') /\ retry_count < MaxRetries) => pc' = "plan"
       /\ (~GetValid(validation_result') /\ retry_count >= MaxRetries) => pc' = "load"
       /\ validation_rules = ShortTableRules => ~GetValid(validation_result')

\* C5: after a Validate visit that produced a verdict, a valid verdict leads
\* to load, an invalid one with retry counter < 2 to plan, an invalid one with
\* retry counter >= 2 to load; the rule set [Positive, RowCountAtLeast(n)] on a
\* table of fewer than n rows gives an invalid verdict.
C5_ValidateSuccessor == [][AfterValidate]_vars

\* C5 witness: validate has sent the run back to plan on the too-short table.
C5_Witness ==
  /\ pc = "plan"
  /\ last.node = "validate"
  /\ validation_rules = ShortTableRules
  /\ validation_result.present /\ ~validation_result.valid
  /\ retry_count < MaxRetries

\* C6: a run that ends by leaving handle_error for END has final status
\* FAILED, never the unset status.
C6_ErrorExitIsFailed ==
  (pc = "END" /\ last.node = "handle_error") => final_status = "FAILED"

\* The retry budget is exhausted: the error node found, or check_recovery
\* found, the counter at 2.
BudgetExhausted == last.cause = "exhausted" \/ retry_count >= MaxRetries
\* The run has been through the error node: one of its operations failed.
HitError == retry_count > 0 \/ last.node = "handle_error"

VerifiedStatus ==
  (pc = "END" /\ last.node = "verify")
    => /\ final_status \in {"SUCCESS", "COMPLETED_WITH_WARNINGS"}
       /\ final_status = "SUCCESS"
            <=> (~last.failed /\ sink.exists /\ sink.count = NRows(transformed_data))

\* C8: verify always leads to END, and the status it sets is SUCCESS exactly
\* when the verification succeeded and the table's row count in the sink
\* equals the row count of the transformed table; otherwise it is
\* COMPLETED_WITH_WARNINGS, never FAILED.
C8_VerifyStatus ==
  /\ [][pc = "verify" => pc' = "END"]_vars
  /\ []VerifiedStatus

\* C8 witness: the verification succeeded on a table whose row count differs
\* from the transformed table's, and the run ended with warnings.
C8_Witness ==
  /\ pc = "END"
  /\ last.node = "verify"
  /\ ~last.failed
  /\ sink.exists /\ sink.count # NRows(transformed_data)
  /\ final_status = "COMPLETED_WITH_WARNINGS"

\* The node after extract, plan and load when the visit succeeded.
Successor(node) ==
  CASE node = "extract" -> "analyze" [] node = "plan" -> "transform" [] node = "load" -> "verify"

\* The node a visit of extract, plan or load moves to, by its own outcome.
AfterFallibleNode ==
  pc \in {"extract", "plan", "load"}
    => /\ pc' = "handle_error" <=> last'.failed
       /\ ~last'.failed => pc' = Successor(pc)

C10_TransformThenValidate == [][pc = "transform" => pc' = "validate"]_vars

\* ------------------------------------------- claims on the engine (C11..C20)
\* The working table as it was before the i-th step of the plan run so far,
\* and what _execute_step does on it with that step.
TableBefore(i) == execute_plan(original_df, SubSeq(steps, 1, i - 1)).transformed_data
Outcome(i) == execute_step(TableBefore(i), steps[i])

InExecutePlan == engine_pc \in {"execute_plan", "returned"} /\ steps # <<>>

\* The steps of PlanSteps with an unknown action, a missing column, a missing
\* parameter.
UnknownAction == Step("no_such_action", Col, "")
MissingColumn == Step("remove_negative", NoCol, "")
BadParameter == FillValue(Col, NULL)

\* C11: the engine never raises on a table and a step list: a step whose
\* execution raises (unknown action, missing column, bad parameter among them)
\* has an entry with status failed and a non-empty error text, and the steps
\* after it are still executed and logged with their own outcome.
C11_FailuresAreLogged ==
  /\ engine_pc # "raised"
  /\ InExecutePlan =>
       /\ Len(transformation_log) = Len(steps)
       /\ \A i \in 1..Len(steps) :
            /\ steps[i] \in {UnknownAction, MissingColumn, BadParameter} => ~Outcome(i).ok
            /\ ~Outcome(i).ok => /\ transformation_log[i].status = "failed"
                                 /\ transformation_log[i].error # <<>>
            /\ Outcome(i).ok => transformation_log[i].status = "success"

\* C11 witness: the first step raised and the step after it was executed and
\* changed the table.
C11_Witness ==
  /\ engine_pc = "returned"
  /\ Len(steps) = 2
  /\ steps[1] \in {UnknownAction, MissingColumn, BadParameter}
  /\ transformation_log[1].status = "failed"
  /\ transformation_log[2].status = "success"
  /\ self_df # original_df

\* C12: the log has exactly one entry per step, and entry i carries the index
\* i (counted from 1), the action and the column of the i-th step, whatever
\* the outcome of the step.
C12_OneEntryPerStep ==
  InExecutePlan =>
    /\ Len(transformation_log) = Len(steps)
    /\ \A i \in 1..Len(steps) :
         /\ transformation_log[i].step = i
         /\ transformation_log[i].action = steps[i].action
         /\ transformation_log[i].column = steps[i].column

\* C12 witness: a returned plan of two different steps, one failed and one not.
C12_Witness ==
  /\ engine_pc = "returned"
  /\ Len(transformation_log) = 2
  /\ steps[1].action # steps[2].action
  /\ transformation_log[1].status = "success"
  /\ transformation_log[2].status = "failed"

\* The steps of the plan run so far whose entry says success, in order.
SucceededSteps ==
  LET idx == SelectSeq([i \in 1..Len(steps) |-> i],
                       LAMBDA i : transformation_log[i].status = "success")
  IN [k \in 1..Len(idx) |-> steps[idx[k]]]

\* One pass of the loop whose entry says failed keeps the working table.
FailedStepKeepsTable ==
  (/\ Len(transformation_log') = Len(transformation_log) + 1
   /\ transformation_log'[Len(transformation_log')].status = "failed")
    => self_df' = self_df

\* The working table is what the succeeded steps alone make of the input.
TableOfSucceededSteps ==
  InExecutePlan => self_df = execute_plan(original_df, SucceededSteps).transformed_data

\* C13: a step logged failed leaves the working table exactly as it was, and
\* the final table is the result of applying only the succeeded steps in order.
C13_FailedStepIsNoOp == [][FailedStepKeepsTable]_vars /\ []TableOfSucceededSteps

\* C13 witness: a step that changed the table, then a failed step.
C13_Witness ==
  /\ engine_pc = "returned"
  /\ Len(steps) = 2
  /\ transformation_log[1].status = "success"
  /\ transformation_log[2].status = "failed"
  /\ self_df # original_df
  /\ self_df = TableBefore(2)

\* A rename_column step on column c is in the log with status success.
RenamedEarlier(c) ==
  \E i \in 1..Len(steps) : /\ steps[i].action = "rename_column"
                           /\ steps[i].column = c
                           /\ transformation_log[i].status = "success"

\* The actions whose method works on the step's "column".
ColumnActions ==
  {"convert_datetime", "fill_null", "remove_negative", "remove_invalid", "convert_numeric",
   "rename_column", "drop_column", "standardize_text"}

\* One pass of the loop on a step whose column an earlier step renamed.
StepOnOldNameFails ==
  (/\ Len(steps') = Len(steps) + 1
   /\ steps'[Len(steps')].action \in ColumnActions
   /\ RenamedEarlier(steps'[Len(steps')].column))
    => /\ transformation_log'[Len(steps')].status = "failed"
       /\ transformation_log'[Len(steps')].error = <<"KeyError", steps'[Len(steps')].column>>
       /\ self_df' = self_df

\* C14: after rename_column(c, n) succeeded, every later step of the plan on
\* the old name c is logged failed with an error naming the missing column,
\* and the table is left as it was.
C14_OldNameFails == [][StepOnOldNameFails]_vars

\* The step a pass of the loop has just executed, and its log entry.
StepTaken == Len(steps') = Len(steps) + 1
NewStep == steps'[Len(steps')]
NewEntry == transformation_log'[Len(transformation_log')]

\* The rows of the working table at the indices `keep`, in their order.
RowsAt(keep) ==
  [k \in 1..Cardinality(keep) |->
     self_df.rows[CHOOSE i \in keep : Cardinality({j \in keep : j <= i}) = k]]

NullRows(c) == {i \in 1..NRows(self_df) : self_df.rows[i][c].isnull}

\* A fill_null step with strategy "drop" on a column of the table.
DropNullsExact ==
  (/\ StepTaken
   /\ NewStep.action = "fill_null" /\ NewStep.strategy = "drop"
   /\ NewStep.column \in ColSet(self_df))
    => /\ NewEntry.status = "success"
       /\ self_df'.cols = self_df.cols
       /\ self_df'.rows = RowsAt((1..NRows(self_df)) \ NullRows(NewStep.column))
       /\ NRows(self_df') = NRows(self_df) - Cardinality(NullRows(NewStep.column))
       /\ NewEntry.details = Cardinality(NullRows(NewStep.column))

\* C15: fill_null with strategy drop on a column holding k nulls removes
\* exactly the k rows whose cell is null, keeps every other row unchanged and
\* in order, and reports k.
C15_DropRemovesNullRows == [][DropNullsExact]_vars

\* C15 witness: a drop that removed a null row and kept a row.
C15_Witness ==
  /\ steps # <<>>
  /\ steps[Len(steps)] = Step("fill_null", Col, "drop")
  /\ transformation_log[Len(steps)].details = 1
  /\ NRows(self_df) = 1
  /\ NRows(TableBefore(Len(steps))) = 2

FillStrategies == {"value", "mean", "median", "mode", "forward_fill"}

\* A fill_null step with a strategy other than drop that is logged success.
FillTouchesOnlyNulls ==
  (/\ StepTaken
   /\ NewStep.action = "fill_null" /\ NewStep.strategy \in FillStrategies
   /\ NewEntry.status = "success")
    => /\ self_df'.cols = self_df.cols
       /\ NRows(self_df') = NRows(self_df)
       /\ \A i \in 1..NRows(self_df) : \A c \in ColSet(self_df) :
            (c # NewStep.column \/ i \notin NullRows(NewStep.column))
              => self_df'.rows[i][c] = self_df.rows[i][c]
       /\ NewEntry.details = Cardinality(NullRows(NewStep.column))

\* C16: fill_null with value, mean, median, mode or forward_fill leaves the
\* row count unchanged, changes only cells of the target column that were
\* null, and reports the null count observed before the fill.
C16_FillKeepsRows == [][FillTouchesOnlyNulls]_vars

\* C16 witness: a mean fill wrote the mean into the one null cell of a column
\* of two rows.
C16_Witness ==
  /\ steps # <<>>
  /\ steps[Len(steps)] = Step("fill_null", Col, "mean")
  /\ transformation_log[Len(steps)].status = "success"
  /\ transformation_log[Len(steps)].details = 1
  /\ NRows(self_df) = 2
  /\ self_df # TableBefore(Len(steps))
  /\ NullRows(Col) = {}

NegativeRows(c) ==
  {i \in 1..NRows(self_df) : ~self_df.rows[i][c].isnull /\ self_df.rows[i][c].val < 0}

\* A remove_negative step on a column of the table.
RemoveNegativeExact ==
  (/\ StepTaken
   /\ NewStep.action = "remove_negative"
   /\ NewStep.column \in ColSet(self_df))
    => /\ self_df'.rows = RowsAt((1..NRows(self_df)) \ NegativeRows(NewStep.column))
       /\ NewEntry.details = NRows(self_df) - NRows(self_df')

\* C17: remove_negative removes exactly the rows whose value in the column is
\* below 0 and no other row (a row whose cell is null stays), and the count it
\* reports is the number of rows it removed.
C17_RemoveNegativeExact == [][RemoveNegativeExact]_vars

\* The rows no earlier row equals on the columns `keys`.
FirstOfGroup(keys) ==
  {i \in 1..NRows(self_df) :
     \A j \in 1..(i - 1) : \E c \in keys : self_df.rows[j][c] # self_df.rows[i][c]}

\* A remove_duplicates step, on all columns or on a subset the table has.
DuplicatesRemoved ==
  (/\ StepTaken
   /\ NewStep.action = "remove_duplicates"
   /\ \A i \in 1..Len(NewStep.subset) : NewStep.subset[i] \in ColSet(self_df))
    => LET keys == IF NewStep.subset = <<>> THEN ColSet(self_df)
                   ELSE {NewStep.subset[i] : i \in 1..Len(NewStep.subset)}
       IN /\ NewEntry.status = "success"
          /\ self_df'.rows = RowsAt(FirstOfGroup(keys))
          /\ NewEntry.details = NRows(self_df) - NRows(self_df')
          /\ (/\ NewStep.subset = <<>>
              /\ steps # <<>>
              /\ steps[Len(steps)] = NewStep) => /\ NewEntry.details = 0
                                                 /\ self_df' = self_df

\* C18: remove_duplicates keeps the first row of each group of rows equal on
\* all columns (on the subset, when one is given), reports the number of rows
\* removed, and with no subset a second application right after the first
\* reports 0 and changes nothing.
C18_KeepsFirstOfGroup == [][DuplicatesRemoved]_vars

\* C18 witness: remove_duplicates without subset removed a row, and its second
\* application removed none.
C18_Witness ==
  /\ Len(steps) = 2
  /\ steps[1] = RemoveDuplicates(<<>>) /\ steps[2] = RemoveDuplicates(<<>>)
  /\ transformation_log[1].details = 1
  /\ transformation_log[2].details = 0

\* The three texts of safe_expressions.
SafeTexts == {SafeExpression(n) : n \in DerivedColumns}

\* Nothing but the fixed texts is handed to eval, and no text of a step.
OnlyFixedTextsEvaluated ==
  /\ evaluated' \subseteq SafeTexts
  /\ StepTaken => {NewStep.expression, NewStep.new_column, NewStep.condition}
                     \cap evaluated' = {}

FailedAndUnchanged == NewEntry.status = "failed" /\ self_df' = self_df

\* A filter_rows step whose condition is not one of the fixed conditions.
UnlistedConditionFails ==
  (StepTaken /\ NewStep.action = "filter_rows" /\ NewStep.condition \notin FilterConditions)
    => FailedAndUnchanged

\* An add_derived_column step, told apart by its expression parameter.
UnlistedExpressionFails ==
  /\ (StepTaken /\ NewStep.action = "add_derived_column"
         /\ NewStep.expression \notin DerivedColumns) => FailedAndUnchanged
  /\ UnlistedConditionFails
  /\ OnlyFixedTextsEvaluated

\* An add_derived_column step, told apart by its new_column parameter.
UnlistedNewColumnFails ==
  /\ (StepTaken /\ NewStep.action = "add_derived_column"
         /\ NewStep.new_column \notin DerivedColumns) => FailedAndUnchanged
  /\ UnlistedConditionFails
  /\ OnlyFixedTextsEvaluated

\* C19 as stated: an add_derived_column step whose expression identifier, or a
\* filter_rows step whose condition, is outside the fixed list is logged failed
\* and leaves the table unchanged; no text of a step parameter is evaluated.
C19_UnlistedExpressionFails == [][UnlistedExpressionFails]_vars

\* C19, amended: an add_derived_column step whose new_column name, or a
\* filter_rows step whose condition, is outside the fixed list is logged failed
\* and leaves the table unchanged; no text of a step parameter is evaluated,
\* only the fixed text the new_column name selects.
C19_UnlistedNewColumnFails == [][UnlistedNewColumnFails]_vars

\* C19 witness: a step with a listed new_column and an unlisted expression
\* added the column from the fixed text, and a step with an unlisted
\* new_column failed after it.
C19_Witness ==
  /\ Len(steps) = 2
  /\ steps[1] = AddDerivedColumn("fare_per_mile", "fare_amount * 2")
  /\ steps[2] = AddDerivedColumn("fare_doubled", "fare_per_mile")
  /\ transformation_log[1].status = "success"
  /\ transformation_log[2].status = "failed"
  /\ evaluated = {SafeExpression("fare_per_mile")}
  /\ "fare_per_mile" \in ColSet(self_df)
  /\ NRows(self_df) = 2

\* A positive rule whose column holds a value below 0, or a row_count rule
\* asking for more rows than the table has.
HardRuleFails(rule) ==
  \/ /\ rule.type = "positive"
     /\ \E i \in 1..NRows(original_df) :
          ~original_df.rows[i][rule.column].isnull /\ original_df.rows[i][rule.column].val < 0
  \/ /\ rule.type = "row_count"
     /\ NRows(original_df) < rule.min

\* C20: the verdict of validate_data is false exactly when at least one
\* positive or row_count rule of the list fails; failed not_null, in_range and
\* unique rules alone leave it true.
C20_VerdictIsHardRules ==
  engine_pc \in {"validate_data", "returned"} =>
    /\ results.valid = ~(\E i \in 1..Len(checked_rules) : HardRuleFails(checked_rules[i]))
    /\ GetValid(validate_data(original_df, checked_rules)) = results.valid

\* C20 witness: two rules that are not hard both failed and the verdict
\* returned is true.
C20_Witness ==
  /\ engine_pc = "returned"
  /\ Len(results.checks) = 2
  /\ results.checks[1].rule.type \in {"not_null", "in_range", "unique"}
  /\ results.checks[2].rule.type \in {"not_null", "in_range", "unique"}
  /\ ~results.checks[1].passed /\ ~results.checks[2].passed
  /\ results.valid

\* ------------------------------------- claims on validation and the agent
Validated == engine_pc \in {"validate_data", "returned"} /\ checked_rules # <<>>

\* C21: for a rule list of length n the result holds exactly n checks, the
\* i-th check describing the i-th rule, also when the type of a rule is not
\* one of the five known kinds.
C21_OneCheckPerRule ==
  Validated =>
    /\ Len(results.checks) = Len(checked_rules)
    /\ \A i \in 1..Len(checked_rules) : results.checks[i].rule = checked_rules[i]

\* The values (non-null cells) of a column of the validated table.
CellsOf(c) ==
  {original_df.rows[i][c] : i \in {j \in 1..NRows(original_df) : ~original_df.rows[j][c].isnull}}

\* The predicate of a rule on the validated table, by the rule's type.
Predicate(rule) ==
  CASE rule.type = "not_null" ->
         \A i \in 1..NRows(original_df) : ~original_df.rows[i][rule.column].isnull
    [] rule.type = "positive" -> \A v \in CellsOf(rule.column) : ~Less(v, Num(0))
    [] rule.type = "in_range" ->
         \A v \in CellsOf(rule.column) : LessEq(Num(rule.min), v) /\ LessEq(v, Num(rule.max))
    [] rule.type = "unique" -> Cardinality(CellsOf(rule.column)) = NRows(original_df)
    [] rule.type = "row_count" -> NRows(original_df) >= rule.min

\* C22: the passed flag of each check is the predicate of its rule on the
\* table: not_null passes iff the column has no null, positive iff no value is
\* below 0, in_range iff no value is outside [min, max], unique iff the number
\* of distinct values is the row count, row_count iff the row count is >= min.
C22_PassedIsPredicate ==
  Validated =>
    \A i \in 1..Len(results.checks) :
      results.checks[i].passed = Predicate(results.checks[i].rule)

\* C22 witness: a positive check passed on a column holding a 0, and a unique
\* check failed.
C22_Witness ==
  /\ engine_pc = "returned"
  /\ Len(results.checks) = 2
  /\ results.checks[1].rule = Positive(Dist) /\ results.checks[1].passed
  /\ Num(0) \in CellsOf(Dist)
  /\ results.checks[2].rule = Unique(Col) /\ ~results.checks[2].passed

FailedChecks == {i \in 1..Len(results.checks) : ~results.checks[i].passed}

\* C23: every failed not_null, in_range or unique rule adds one warning and
\* every failed positive or row_count rule adds one error, so warnings and
\* errors together are as many as the checks that did not pass.
C23_OneMessagePerFailure ==
  Validated => results.warnings + results.errors = Cardinality(FailedChecks)

\* The step of the Validate node leaves the table as it found it, the Load
\* node is entered from Validate only, and a load that succeeds writes the rows
\* of that table.
ValidateKeepsTable ==
  /\ pc = "validate" => UNCHANGED <<transformed_data, raw_data>>
  /\ pc = "load" =>
       /\ last.node = "validate"
       /\ UNCHANGED transformed_data
       /\ pc' = "verify" =>
            /\ load_result'.present
            /\ load_result'.rows_loaded = NRows(transformed_data)
            /\ sink' = TableWith(NRows(transformed_data))

\* C24: evaluating the validation rules never changes the table, and the
\* table Validate was given is the table Load later writes.
C24_ValidateKeepsTable == [][ValidateKeepsTable]_vars

\* A run that validated and loaded a table shorter than the extracted one.
C24_Witness ==
  /\ pc = "verify"
  /\ last.node = "load"
  /\ validation_result.present
  /\ NRows(transformed_data) < NRows(raw_data)
  /\ sink = TableWith(NRows(transformed_data))
  /\ load_result.rows_loaded = NRows(transformed_data)
\* The closed set of step variants: the actions _execute_step dispatches on.
StepVariants == ColumnActions \cup {"add_derived_column", "remove_duplicates", "filter_rows"}

PlanOfKnownSteps(plan) ==
  \A i \in 1..Len(plan) : plan[i].hasAction /\ plan[i].action \in StepVariants

\* C25: a planner response holding a step outside the closed step set (or a
\* step without its parameters) fails the Plan state and so is never the plan
\* Transform runs, and no planner response makes a state raise.
C25_PlansAreChecked ==
  /\ pc = "transform" => PlanOfKnownSteps(transformation_plan)
  /\ pc # "raised"

\* One step of a node that returns: the trace keeps what it held and gains
\* one entry (the model's trace stops growing at MaxLog entries).
VisitIsLogged ==
  (pc' # "raised" /\ Len(reasoning_log) < MaxLog) =>
     /\ Len(reasoning_log') = Len(reasoning_log) + 1
     /\ SubSeq(reasoning_log', 1, Len(reasoning_log)) = reasoning_log

\* C26: the reasoning trace is append-only and holds one entry for every
\* state visit of the run, failed Extract, Plan and Load visits and every
\* ErrorRecovery visit included, in visit order.
C26_OneEntryPerVisit == [][VisitIsLogged]_vars

\* The append-only half of the statement.
TraceOnlyGrows ==
  /\ Len(reasoning_log') >= Len(reasoning_log)
  /\ SubSeq(reasoning_log', 1, Len(reasoning_log)) = reasoning_log

AppendOnly == [][TraceOnlyGrows]_vars

\* ------------------------------------------------------- claims on the sink
\* The statement begins with SELECT once surrounding whitespace is trimmed
\* and case is ignored: after some run of whitespace come the six letters, each
\* in either case.
SameLetter(c, d) == c = d \/ UpperChar(c) = d

BeginsWithSelect(query) ==
  \E k \in 0..Len(query) :
    /\ \A i \in 1..k : query[i] \in Whitespace
    /\ Len(query) >= k + 6
    /\ \A i \in 1..6 : SameLetter(query[k + i], SELECT[i])

\* What a call of query_database on a statement that does not begin with
\* SELECT leaves behind.
QueryRejected ==
  (sink_result'.call = "query" /\ ~BeginsWithSelect(statement')) =>
     /\ ~sink_result'.success
     /\ sink_result'.error # ""
     /\ ~sink_result'.executed
     /\ sink' = sink

\* C27: for every statement that, trimmed and with case ignored, does not
\* begin with SELECT, the query operation returns an error result, executes
\* nothing against the database and leaves the database as it was.
C27_NonSelectIsRejected == [][QueryRejected]_vars

\* A rejected statement that holds the word SELECT, but not at its start, on
\* a table with rows.
C27_Witness ==
  /\ sink_result.call = "query"
  /\ ~sink_result.success
  /\ ~sink_result.executed
  /\ statement = <<"D", "R", "O", "P", " ">> \o SELECT
  /\ sink = TableWith(MaxRows)

\* The target's row count before the call: a missing table has no rows.
PriorCount == IF sink.exists THEN sink.count ELSE 0

\* What a call of load_to_database reports and leaves behind.
LoadReports ==
  sink_result'.call = "load" =>
    /\ sink_result'.success =>
         /\ sink_result'.rows_loaded = NRows(original_df)
         /\ sink_result'.previous_row_count = PriorCount
         /\ sink' = TableWith(sink_result'.current_row_count)
         /\ if_exists' = "replace" =>
              sink_result'.current_row_count = sink_result'.rows_loaded
         /\ if_exists' = "append" =>
              sink_result'.current_row_count = PriorCount + sink_result'.rows_loaded
    /\ (if_exists' = "fail" /\ sink.exists) =>
         /\ ~sink_result'.success
         /\ sink' = sink

\* C30: a successful load reports rows_loaded equal to the table's row count
\* and previous_row_count equal to the target's row count before the load; with
\* mode replace current_row_count equals rows_loaded, with mode append it equals
\* previous_row_count + rows_loaded, and mode fail on an existing target
\* returns a failure result and leaves the target's rows as they were.
C30_LoadReportsCounts == [][LoadReports]_vars

\* An append of a full table onto a full table.
C30_Witness ==
  /\ sink_result.call = "load"
  /\ sink_result.success
  /\ if_exists = "append"
  /\ sink_result.previous_row_count = MaxRows
  /\ sink_result.rows_loaded = MaxRows
  /\ sink = TableWith(MaxRows + MaxRows)

\* ------------------------------------------------------ end-to-end scenario
\* Scenario A: execute_plan returned from the plan [fill_null median,
\* remove_negative] on a table whose fare_amount holds one negative value and
\* one null.
ScenarioA ==
  /\ engine_pc = "returned"
  /\ steps = <<Step("fill_null", Col, "median"), Step("remove_negative", Col, "")>>
  /\ NegativeCount(original_df, Col) = 1
  /\ NullCount(original_df, Col) = 1

\* C29: on a table whose fare_amount holds one negative value and one null the
\* plan [fill_null(fare_amount, median), remove_negative(fare_amount)] returns a
\* table with no null and no negative value in fare_amount and a log of exactly
\* two entries, both with status success.
C29_ScenarioA ==
  ScenarioA =>
    /\ NullCount(self_df, Col) = 0
    /\ NegativeCount(self_df, Col) = 0
    /\ Len(transformation_log) = 2
    /\ \A i \in 1..2 : transformation_log[i].status = "success"

\* Scenario A on the build where the fill leaves the null in place: the null
\* is still there after the first step and gone after the second.
C29_Witness ==
  /\ ScenarioA
  /\ copy_on_write
  /\ transformation_log[1].details = 1
  /\ transformation_log[2].details = 1

\* -------------------------------------------------------- claims on two runs
\* What a run that executes alone on its source ends with, once its
\* verification has read the table: status SUCCESS, the rows of its own source
\* in its target table, and that count loaded and verified.
EndsAsAlone(run, ctx, table) ==
  (ctx.pc = "END" /\ ctx.last.node = "verify" /\ ~ctx.last.failed) =>
     /\ ctx.final_status = "SUCCESS"
     /\ table = TableWith(NRows(SourceOf(run)))
     /\ ctx.load_result.rows_loaded = NRows(SourceOf(run))
     /\ ctx.load_result.current_row_count = NRows(SourceOf(run))

BothEndAsAlone ==
  /\ EndsAsAlone(current, Context, sink)
  /\ EndsAsAlone(3 - current, other, other_sink)

\* A node of one run leaves the context and the table of the other run.
OtherRunUntouched == current' = current => UNCHANGED <<other, other_sink>>

\* C28: two runs with separate contexts and different target tables in one
\* database, interleaved node by node in any order, do not interfere: no node
\* of one changes the context or the table of the other, and each ends with the
\* status, the table and the verified row count it ends with alone.
C28_RunsDoNotInterfere == [][OtherRunUntouched]_vars /\ []BothEndAsAlone

\* Both runs verified, each table holding its own run's rows.
C28_Witness ==
  /\ pc = "END"
  /\ other.pc = "END"
  /\ final_status = "SUCCESS"
  /\ other.final_status = "SUCCESS"
  /\ current = 1
  /\ sink = TableWith(NRows(SourceOf(1)))
  /\ other_sink = TableWith(NRows(SourceOf(2)))
  /\ sink # other_sink

\* The run that holds the variables has loaded and not yet verified, and the
\* other run is about to load.
BetweenLoadAndVerify == pc = "verify" /\ other.pc = "load"

\* The handover to the waiting run is possible there.
NoMutualExclusion == BetweenLoadAndVerify => ENABLED SwitchShared

\* C31: two runs on the same table of the same database are not kept apart:
\* the other run's Load can run between a run's Load and its Verify, so that a
\* run whose own load succeeded ends COMPLETED_WITH_WARNINGS.
C31_NoMutualExclusion == []NoMutualExclusion

\* Run 1 loaded its two rows, run 2 replaced them with its one row, and run
\* 1's verification then read the table: it ends with warnings.
C31_Witness ==
  /\ current = 1
  /\ pc = "END"
  /\ last.node = "verify"
  /\ ~last.failed
  /\ load_result.present
  /\ load_result.current_row_count = NRows(SourceOf(1))
  /\ final_status = "COMPLETED_WITH_WARNINGS"
  /\ sink = TableWith(NRows(SourceOf(2)))
  /\ other.load_result.present

\* ---------------------------------------------- claims on the run's tables
\* The extracted table stays as Extract returned it, and a Transform visit
\* that returns leaves the table its plan makes of the extracted table.
RawTableKept ==
  /\ raw_data # None => raw_data' = raw_data
  /\ (pc = "transform" /\ pc' # "raised") =>
        transformed_data' = execute_plan(raw_data, transformation_plan).transformed_data

\* C32: the extracted table is never modified after Extract, and every
\* Transform visit, those after a retry included, applies its plan to the
\* extracted table, not to the table of the previous Transform visit.
C32_TransformReadsRaw == [][RawTableKept]_vars

\* A Transform visit after a retry, with the empty plan, on an extracted
\* table holding a null: the visit returns the extracted table.
C32_Witness ==
  /\ pc = "validate"
  /\ last.node = "transform"
  /\ retry_entries >= 1
  /\ transformation_plan = <<>>
  /\ NullCount(raw_data, Col) > 0
  /\ transformed_data = raw_data

\* C33: Transform is entered only when the run holds an extracted table; no
\* path leads to Transform after a failed Extract.
C33_TransformHasTable == pc = "transform" => raw_data # None

\* C34: Load is entered only when the latest validation verdict is valid or
\* the retry counter is at least MaxRetries: a table whose latest verdict is
\* invalid is not written while retry budget remains.
C34_LoadAfterValidVerdict ==
  pc = "load" => (GetValid(validation_result) \/ retry_count >= MaxRetries)

\* Load entered on a valid verdict that followed an invalid one.
C34_Witness ==
  /\ pc = "load"
  /\ retry_entries >= 1
  /\ validation_result.present
  /\ validation_result.valid

\* C35: the error field is empty on every entry to Plan, Transform, Validate,
\* Load and Verify: an error set by a failed node is seen by the error node
\* that follows it and by no later node's check.
C35_ErrorEmptyOnEntry ==
  pc \in {"plan", "transform", "validate", "load", "verify"} => error = ""

\* Plan entered again after the error node recovered from a failure.
C35_Witness ==
  /\ pc = "plan"
  /\ last.node = "handle_error"
  /\ last.cause = "recovered"
  /\ error = ""

\* The retry counter is below MaxRetries wherever the run has not ended.
CounterBelowBudget == retry_count >= MaxRetries => pc = "END"

\* The counter reaches MaxRetries only in a step of the error node, and that
\* step ends the run.
BudgetSpentAtTheEnd ==
  (retry_count < MaxRetries /\ retry_count' >= MaxRetries) =>
     (pc = "handle_error" /\ pc' = "END")

\* C36: the error node is never entered, and Validate never evaluated, with
\* the retry counter at MaxRetries or more: the counter only reaches MaxRetries
\* inside a visit of the error node that is followed by the end of the run.
C36_BudgetSpentOnlyAtEnd == []CounterBelowBudget /\ [][BudgetSpentAtTheEnd]_vars

\* A run that ended in the error node with the counter at MaxRetries.
C36_Witness ==
  /\ pc = "END"
  /\ last.node = "handle_error"
  /\ retry_count = MaxRetries

\* -------------------------------------------- claims on the plan in force
\* Transform is entered from a Plan visit that parsed a plan, and from
\* nowhere else.
TransformFollowsPlan == pc = "transform" => (last.node = "plan" /\ ~last.failed)

\* The Plan visit moving on to Transform with the step list `plan`.
PlanVisitGives(plan) == plan_node /\ pc' = "transform" /\ transformation_plan' = plan

\* Whatever list the state holds on entry to Plan, a list of the error node
\* included, the visit can leave every list the planner can answer with.
PlanReplacesList == pc = "plan" => \A plan \in PlannerPlans : ENABLED PlanVisitGives(plan)

DefaultRules == <<RowCountAtLeast(DefaultMinRows)>>

\* A Transform visit that returns keeps the rules of the planner's array or
\* DefaultRules, never an empty list of its own making; with DefaultRules it
\* moves on to Validate and leaves the error field empty.
RulePlanningNeverFails ==
  (pc = "transform" /\ pc' # "raised") =>
     /\ validation_rules' \in PlannerRuleLists \cup {DefaultRules}
     /\ validation_rules' = DefaultRules => (pc' = "validate" /\ error' = "")

\* C38: when the planner's answer to the validation-rule prompt holds no
\* parsable rule array, the rule list becomes exactly [row_count, min 1] and
\* the run still moves from Transform to Validate; a rule-planning failure
\* never sets the error field and never leads to the error node.
C38_DefaultRules == [][RulePlanningNeverFails]_vars

\* Validate entered with the default rule list.
C38_Witness ==
  /\ pc = "validate"
  /\ last.node = "transform"
  /\ validation_rules = DefaultRules
  /\ error = ""

\* ------------------------------------------- claims on steps of the engine
\* One pass of the loop on a step of a column action whose column the table
\* does not have.
MissingColumnStepFails ==
  (/\ StepTaken
   /\ NewStep.action \in ColumnActions
   /\ NewStep.column \notin ColSet(self_df))
    => /\ NewEntry.status = "failed"
       /\ self_df' = self_df

\* C39: every step naming a target column the table does not have
\* (convert_datetime, fill_null, remove_negative, remove_invalid,
\* convert_numeric, rename_column, drop_column, standardize_text) is logged
\* failed and leaves the table unchanged; none is logged success.
C39_MissingColumnFails == [][MissingColumnStepFails]_vars

\* The same for every column action but rename_column.
MissingColumnFailsButRename ==
  (/\ StepTaken
   /\ NewStep.action \in ColumnActions \ {"rename_column"}
   /\ NewStep.column \notin ColSet(self_df))
    => /\ NewEntry.status = "failed"
       /\ self_df' = self_df

OnlyRenameIsSilent == [][MissingColumnFailsButRename]_vars

\* One pass of the loop on a fill_null step, with any strategy but drop, that
\* is logged success.
FillLeavesNoNull ==
  (/\ StepTaken
   /\ NewStep.action = "fill_null" /\ NewStep.strategy # "drop"
   /\ NewEntry.status = "success")
    => NullCount(self_df', NewStep.column) = 0

\* C40: whenever a fill_null step with a strategy other than drop is logged
\* success, the target column of the resulting table holds no null; a strategy
\* name outside value, mean, median, mode, forward_fill, drop is not logged
\* success with the nulls left in place.
C40_FillLeavesNoNull == [][FillLeavesNoNull]_vars

====
